---- MODULE Spec2Model ----
(***************************************************************************)
(* Model of pycaz/cyclone.py: the Record / Track classes, the temporal     *)
(* interpolation of a Track, the rmax selection of Record.calc_rmax and    *)
(* the rmax_select ladder of calculate_wind / calculate_pressure.          *)
(*                                                                         *)
(* Floats are modelled as exact rationals extended with the IEEE values    *)
(* NaN, +Inf and -Inf (numpy float64 arithmetic never raises on a zero     *)
(* divisor).  Timestamps are integers counting ticks of TickSeconds.       *)
(***************************************************************************)
EXTENDS Integers, Sequences, FiniteSets, TLC

VARIABLES heap, nalloc, records, timeindex, result, nops

vars == <<heap, nalloc, records, timeindex, result, nops>>

(***************************************************************************)
(* Bounds of the model.                                                    *)
(***************************************************************************)
MaxLen == 3
MaxTime == 2
MaxOps == 2

(***************************************************************************)
(* float64 values                                                          *)
(***************************************************************************)
Abs(x) == IF x < 0 THEN -x ELSE x

Sgn(x) == IF x < 0 THEN -1 ELSE IF x > 0 THEN 1 ELSE 0

RECURSIVE GCD(_, _)
GCD(a, b) == IF b = 0 THEN a ELSE GCD(b, a % b)

NaN == [k |-> "nan", n |-> 0, d |-> 1]

Inf(s) == [k |-> "inf", n |-> s, d |-> 1]

Num(n, d) ==
    LET s == IF d < 0 THEN -1 ELSE 1
        g == GCD(Abs(n), Abs(d))
    IN  [k |-> "num", n |-> (s * n) \div g, d |-> (s * d) \div g]

Int2V(i) == Num(i, 1)

IsNaN(a) == a.k = "nan"

IsNum(a) == a.k = "num"

\* product and sum of two rationals
QMul(a, b) ==
    LET g1 == GCD(Abs(a.n), b.d)
        g2 == GCD(Abs(b.n), a.d)
    IN  Num((a.n \div g1) * (b.n \div g2), (a.d \div g2) * (b.d \div g1))

QAdd(a, b) ==
    LET g == GCD(a.d, b.d)
        l == (a.d \div g) * b.d
    IN  Num(a.n * (l \div a.d) + b.n * (l \div b.d), l)

\* np.exp and ** with a real exponent are outside exact arithmetic: the value
\* of a function built from them is kept as the term t = fn(args), and the
\* arithmetic applied to it afterwards as const + coef*t with rational const
\* and coef.  Opaque is a value this form cannot hold.
Opaque == [k |-> "opaque", n |-> 0, d |-> 1]

Symbolic(a) == a.k = "sym" \/ a.k = "opaque"

Coef(a) == [k |-> "num", n |-> a.n, d |-> a.d]

Const(a) == [k |-> "num", n |-> a.cn, d |-> a.cd]

SymVal(coef, const, t) ==
    IF coef.n = 0 THEN const
    ELSE [k |-> "sym", n |-> coef.n, d |-> coef.d,
          cn |-> const.n, cd |-> const.d, t |-> t]

Term(fn, args) ==
    IF \E i \in DOMAIN args : IsNaN(args[i]) THEN NaN
    ELSE IF \E i \in DOMAIN args : ~IsNum(args[i]) THEN Opaque
    ELSE SymVal(Int2V(1), Int2V(0), [fn |-> fn, args |-> args])

SymMul(a, b) ==
    IF a.k = "sym" /\ b.k = "num"
    THEN SymVal(QMul(Coef(a), b), QMul(Const(a), b), a.t)
    ELSE IF a.k = "num" /\ b.k = "sym"
    THEN SymVal(QMul(Coef(b), a), QMul(Const(b), a), b.t)
    ELSE Opaque

SymAdd(a, b) ==
    IF a.k = "sym" /\ b.k = "num"
    THEN SymVal(Coef(a), QAdd(Const(a), b), a.t)
    ELSE IF a.k = "num" /\ b.k = "sym"
    THEN SymVal(Coef(b), QAdd(Const(b), a), b.t)
    ELSE IF a.k = "sym" /\ b.k = "sym" /\ a.t = b.t
    THEN SymVal(QAdd(Coef(a), Coef(b)), QAdd(Const(a), Const(b)), a.t)
    ELSE Opaque

VNeg(a) ==
    IF a.k = "nan" THEN NaN
    ELSE IF a.k = "sym" THEN [a EXCEPT !.n = -a.n, !.cn = -a.cn]
    ELSE [a EXCEPT !.n = -a.n]

VMul(a, b) ==
    IF a.k = "nan" \/ b.k = "nan" THEN NaN
    ELSE IF Symbolic(a) \/ Symbolic(b) THEN SymMul(a, b)
    ELSE IF a.k = "inf" \/ b.k = "inf"
         THEN IF Sgn(a.n) * Sgn(b.n) = 0 THEN NaN ELSE Inf(Sgn(a.n) * Sgn(b.n))
         ELSE QMul(a, b)

VAdd(a, b) ==
    IF a.k = "nan" \/ b.k = "nan" THEN NaN
    ELSE IF Symbolic(a) \/ Symbolic(b) THEN SymAdd(a, b)
    ELSE IF a.k = "inf" /\ b.k = "inf" THEN (IF a.n = b.n THEN a ELSE NaN)
    ELSE IF a.k = "inf" THEN a
    ELSE IF b.k = "inf" THEN b
    ELSE QAdd(a, b)

VSub(a, b) == VAdd(a, VNeg(b))

VDiv(a, b) ==
    IF a.k = "nan" \/ b.k = "nan" THEN NaN
    ELSE IF Symbolic(b) THEN Opaque
    ELSE IF Symbolic(a)
         THEN (IF b.k = "num" /\ b.n # 0 THEN SymMul(a, Num(b.d, b.n)) ELSE Opaque)
    ELSE IF b.k = "inf" THEN (IF a.k = "inf" THEN NaN ELSE Int2V(0))
    ELSE IF b.n = 0 THEN (IF a.n = 0 THEN NaN ELSE Inf(Sgn(a.n)))
    ELSE IF a.k = "inf" THEN Inf(Sgn(a.n) * Sgn(b.n))
    ELSE QMul(a, Num(b.d, b.n))

\* comparisons are false on NaN; the model compares no symbolic value
Ordered(a) == a.k = "num" \/ a.k = "inf"

VLt(a, b) ==
    /\ Ordered(a)
    /\ Ordered(b)
    /\ IF a.k = "inf" THEN a.n < 0 /\ ~(b.k = "inf" /\ b.n < 0)
       ELSE IF b.k = "inf" THEN b.n > 0
       ELSE a.n * b.d < b.n * a.d

VLe(a, b) == Ordered(a) /\ Ordered(b) /\ (a = b \/ VLt(a, b))

(***************************************************************************)
(* Record: a dict of fields.  np.nan as the default of vinfo and radinfo   *)
(* is a float scalar, not an array.                                        *)
(***************************************************************************)
req_kw == {"timestamp", "lon", "lat", "mslp", "vmax"}

opt_kw == {"rmax", "vinfo", "radinfo", "ustorm", "vstorm"}

ScalarNaN == [arr |-> FALSE, v |-> <<NaN>>]

VArray(s) == [arr |-> TRUE, v |-> s]

RadScalarNaN == [dim |-> 0, rows |-> <<<<NaN>>>>]

Rad1d(row) == [dim |-> 1, rows |-> <<row>>]

Rad2d(rows) == [dim |-> 2, rows |-> rows]

OptDefault(kw) ==
    IF kw = "vinfo" THEN ScalarNaN
    ELSE IF kw = "radinfo" THEN RadScalarNaN
    ELSE NaN

RecordOk(kwargs) == req_kw \subseteq DOMAIN kwargs

Record(kwargs) ==
    [kw \in req_kw \cup opt_kw |->
        IF kw \in DOMAIN kwargs THEN kwargs[kw] ELSE OptDefault(kw)]

(***************************************************************************)
(* conversion.gc_distance: displacement (dx, dy) in metres of the point    *)
(* `of` from `origin`, both in degrees.                                    *)
(***************************************************************************)
DegLen == 111195

TickSeconds == 3 * 3600

gc_distance(of_x, of_y, origin_x, origin_y) ==
    <<VMul(Int2V(DegLen), VSub(of_x, origin_x)),
      VMul(Int2V(DegLen), VSub(of_y, origin_y))>>

total_seconds(ticks) == Int2V(ticks * TickSeconds)

(***************************************************************************)
(* Track: self.records is an array of references into the heap of Record   *)
(* objects, self.timeindex the DatetimeIndex built from them.              *)
(***************************************************************************)
TimesOf(h, recs) == [i \in 1..Len(recs) |-> h[recs[i]].timestamp]

\* np.argsort of the time index (insertion sort below 16 entries: stable)
Argsort(t) ==
    LET n == Len(t)
        rank(i) == 1 + Cardinality({j \in 1..n : t[j] < t[i] \/ (t[j] = t[i] /\ j < i)})
    IN  [r \in 1..n |-> CHOOSE i \in 1..n : rank(i) = r]

Sort(recs, tidx) ==
    LET isort == Argsort(tidx)
    IN  [timeindex |-> [i \in 1..Len(tidx) |-> tidx[isort[i]]],
         records |-> [i \in 1..Len(tidx) |-> recs[isort[i]]]]

RECURSIVE TranslationLoop(_, _, _, _)
TranslationLoop(h, recs, tidx, i) ==
    LET n == Len(recs)
        \* the last record takes the velocity of the one before it
        Last(h1) == [h1 EXCEPT ![recs[n]].ustorm = h1[recs[n - 1]].ustorm,
                               ![recs[n]].vstorm = h1[recs[n - 1]].vstorm]
        Step(dt, d) == Last([h EXCEPT ![recs[i]].ustorm = VDiv(d[1], dt),
                                      ![recs[i]].vstorm = VDiv(d[2], dt)])
    IN  IF i > n - 1 THEN h
        ELSE TranslationLoop(
                 Step(total_seconds(tidx[i + 1] - tidx[i]),
                      gc_distance(h[recs[i + 1]].lon, h[recs[i + 1]].lat,
                                  h[recs[i]].lon, h[recs[i]].lat)),
                 recs, tidx, i + 1)

\* calc_translation without the last-step handling: the final record keeps
\* the velocity it had
calc_translation_nolast(h, recs, tidx) ==
    LET h1 == TranslationLoop(h, recs, tidx, 1)
        n == Len(recs)
    IN  IF n = 0 THEN h1
        ELSE [h1 EXCEPT ![recs[n]].ustorm = h[recs[n]].ustorm,
                        ![recs[n]].vstorm = h[recs[n]].vstorm]

\* calc_translation with the last-step handling run after the loop as well,
\* a second-to-last record that does not exist read as a record at rest
calc_translation_rest(h, recs, tidx) ==
    LET h1 == TranslationLoop(h, recs, tidx, 1)
    IN  IF Len(recs) = 1
        THEN [h1 EXCEPT ![recs[1]].ustorm = Int2V(0), ![recs[1]].vstorm = Int2V(0)]
        ELSE h1

calc_translation(h, recs, tidx) == TranslationLoop(h, recs, tidx, 1)

\* Track.__init__ on an array of Record references
TrackInit(h, arr) ==
    LET s == Sort(arr, TimesOf(h, arr))
    IN  [heap |-> calc_translation(h, s.records, s.timeindex),
         records |-> s.records,
         timeindex |-> s.timeindex]

(***************************************************************************)
(* Track.interpolate                                                       *)
(***************************************************************************)
Min(a, b) == IF a < b THEN a ELSE b

NCols(m) == Len(m[1])

Zeros(nr, nc) == [i \in 1..nr |-> [j \in 1..nc |-> Int2V(0)]]

\* radinfo*np.nan: every entry of the array times NaN
TimesNaN(m) == [i \in 1..Len(m) |-> [j \in 1..Len(m[i]) |-> VMul(m[i][j], NaN)]]

Blend(l, r, w_left, w_right) == VAdd(VMul(l, w_left), VMul(r, w_right))

\* The loop over thresholds of lines 1229-1235 and 1260-1266, from index i on.
\* acc = [err, rad]; an index beyond a radinfo array raises IndexError.
RECURSIVE ThresholdLoop(_, _, _, _, _, _, _, _, _)
ThresholdLoop(acc, i, last, vl, vr, rl, rr, w_left, w_right) ==
    IF i > last \/ acc.err # "" THEN acc
    ELSE IF IsNaN(vl[i]) \/ IsNaN(vr[i])
         THEN ThresholdLoop([acc EXCEPT !.rad = TimesNaN(acc.rad)], i + 1, last,
                            vl, vr, rl, rr, w_left, w_right)
         ELSE LET nc == IF Len(acc.rad) = 0 THEN 0 ELSE NCols(acc.rad)
                  inrange == /\ i <= Len(rl) /\ i <= Len(rr)
                             /\ nc <= Len(rl[i]) /\ nc <= Len(rr[i])
              IN  IF ~inrange /\ nc > 0
                  THEN [acc EXCEPT !.err = "IndexError"]
                  ELSE ThresholdLoop(
                           [acc EXCEPT !.rad[i] =
                               [j \in 1..nc |-> Blend(rl[i][j], rr[i][j], w_left, w_right)]],
                           i + 1, last, vl, vr, rl, rr, w_left, w_right)

\* radinfo[j] = radinfo_left[j]*w_left + radinfo_right[j]*w_right, row-wise with
\* numpy broadcasting (lines 1252-1254)
RECURSIVE RowLoop(_, _, _, _, _, _)
RowLoop(acc, j, rl, rr, w_left, w_right) ==
    IF j > Len(rl) \/ acc.err # "" THEN acc
    ELSE IF j > Len(rr) THEN [acc EXCEPT !.err = "IndexError"]
    ELSE LET cl == Len(rl[j])
             cr == Len(rr[j])
         IN  IF cl = cr
             THEN RowLoop([acc EXCEPT !.rad[j] =
                              [c \in 1..cl |-> Blend(rl[j][c], rr[j][c], w_left, w_right)]],
                          j + 1, rl, rr, w_left, w_right)
             ELSE IF cr = 1
             THEN RowLoop([acc EXCEPT !.rad[j] =
                              [c \in 1..cl |-> Blend(rl[j][c], rr[j][1], w_left, w_right)]],
                          j + 1, rl, rr, w_left, w_right)
             ELSE [acc EXCEPT !.err = "ValueError"]

\* lines 1200-1274: vinfo and radinfo of the interpolated record
RadialInterp(L, R, w_left, w_right) ==
    IF ~L.vinfo.arr \/ ~R.vinfo.arr
    THEN [err |-> "TypeError", vinfo |-> ScalarNaN, radinfo |-> RadScalarNaN]
    ELSE
    LET vinfo_left == L.vinfo.v
        vinfo_right == R.vinfo.v
        lvinfo_left == Len(vinfo_left)
        lvinfo_right == Len(vinfo_right)
        radinfo_left == L.radinfo.rows
        radinfo_right == R.radinfo.rows
        min_vinfo_length == Min(lvinfo_left, lvinfo_right)
        \* vinfo and radinfo as a branch of lines 1207-1267 leaves them
        Bound(vinfo, loop) == [err |-> loop.err, bound |-> TRUE,
                               vinfo |-> vinfo, radinfo |-> Rad2d(loop.rad)]
        Missing(bound) == [err |-> "", bound |-> bound,
                           vinfo |-> ScalarNaN, radinfo |-> RadScalarNaN]
        blended ==
            IF lvinfo_left # lvinfo_right
            THEN Bound(VArray(SubSeq(vinfo_left, 1, min_vinfo_length)),
                       ThresholdLoop(
                           [err |-> "",
                            rad |-> Zeros(min_vinfo_length,
                                          IF lvinfo_left > lvinfo_right
                                          THEN NCols(radinfo_left)
                                          ELSE NCols(radinfo_right))],
                           1, min_vinfo_length, vinfo_left, vinfo_right,
                           radinfo_left, radinfo_right, w_left, w_right))
            ELSE IF lvinfo_left = 1
            THEN IF IsNaN(vinfo_left[1]) \/ IsNaN(vinfo_right[1])
                 THEN Missing(TRUE)
                 ELSE IF vinfo_left[1] = Int2V(0) \/ vinfo_right[1] = Int2V(0)
                 THEN Missing(TRUE)
                 ELSE Bound([arr |-> FALSE, v |-> <<vinfo_left[1]>>],
                            RowLoop([err |-> "",
                                     rad |-> Zeros(Len(radinfo_left), NCols(radinfo_left))],
                                    1, radinfo_left, radinfo_right, w_left, w_right))
            ELSE IF lvinfo_left > 1
            THEN Bound(VArray(vinfo_left),
                       ThresholdLoop(
                           [err |-> "", rad |-> Zeros(lvinfo_left, NCols(radinfo_left))],
                           1, lvinfo_left, vinfo_left, vinfo_right,
                           radinfo_left, radinfo_right, w_left, w_right))
            ELSE Missing(FALSE)
        \* lines 1269-1274: an endpoint's lists verbatim at weight 1
        Override(b) ==
            IF b.err # ""
            THEN [err |-> b.err, vinfo |-> ScalarNaN, radinfo |-> RadScalarNaN]
            ELSE IF w_right = Int2V(1)
            THEN [err |-> "", vinfo |-> VArray(vinfo_right), radinfo |-> Rad2d(radinfo_right)]
            ELSE IF w_left = Int2V(1)
            THEN [err |-> "", vinfo |-> VArray(vinfo_left), radinfo |-> Rad2d(radinfo_left)]
            ELSE IF ~b.bound
            THEN [err |-> "UnboundLocalError", vinfo |-> ScalarNaN, radinfo |-> RadScalarNaN]
            ELSE [err |-> "", vinfo |-> b.vinfo, radinfo |-> b.radinfo]
    IN  Override(blended)

\* np.searchsorted with side='right', kept inside the array
searchsorted_right(tidx, at) ==
    Min(1 + Cardinality({i \in 1..Len(tidx) : tidx[i] <= at}), Len(tidx))

\* np.searchsorted(a=timeindex, v=at, side='left'), as a 1-based position
searchsorted_left(tidx, at) == 1 + Cardinality({i \in 1..Len(tidx) : tidx[i] < at})

\* the range assertions with the upper bound excluded
InRangeOpen(tidx, at) == at < tidx[Len(tidx)] /\ at >= tidx[1]

\* lines 1162-1166: the range assertions
InRange(tidx, at) == at <= tidx[Len(tidx)] /\ at >= tidx[1]

\* lines 1176-1186: the weights of the bracketing records
Weights(i_left, i_right, v_left, v_right, at) ==
    IF i_left < i_right
    THEN LET td_right == total_seconds(v_right - at)
             td_total == total_seconds(v_right - v_left)
             Pair(w_left) ==
                 [err |-> IF v_right = v_left THEN "ZeroDivisionError" ELSE "",
                  w_left |-> w_left, w_right |-> VSub(Int2V(1), w_left)]
         IN  Pair(VDiv(td_right, td_total))
    ELSE [err |-> "", w_left |-> Int2V(1), w_right |-> Int2V(0)]

NoRecord == Record([timestamp |-> -1, lon |-> NaN, lat |-> NaN, mslp |-> NaN, vmax |-> NaN])

interpolate(h, recs, tidx, at) ==
    IF ~InRange(tidx, at)
    THEN [op |-> "interpolate", status |-> "OutOfRange", at |-> at,
          i_left |-> 0, i_right |-> 0, w_left |-> NaN, w_right |-> NaN, rec |-> NoRecord]
    ELSE
    LET i_right == searchsorted_left(tidx, at)
        i_left == IF i_right = 1 THEN 1 ELSE i_right - 1
        L == h[recs[i_left]]
        R == h[recs[i_right]]
        \* lines 1189-1198
        int_record(w) == Record([
            timestamp |-> at,
            lon |-> Blend(L.lon, R.lon, w.w_left, w.w_right),
            lat |-> Blend(L.lat, R.lat, w.w_left, w.w_right),
            mslp |-> Blend(L.mslp, R.mslp, w.w_left, w.w_right),
            vmax |-> Blend(L.vmax, R.vmax, w.w_left, w.w_right),
            rmax |-> Blend(L.rmax, R.rmax, w.w_left, w.w_right),
            ustorm |-> Blend(L.ustorm, R.ustorm, w.w_left, w.w_right),
            vstorm |-> Blend(L.vstorm, R.vstorm, w.w_left, w.w_right)])
        Return(w, rad, status) ==
            [op |-> "interpolate", status |-> status, at |-> at,
             i_left |-> i_left, i_right |-> i_right,
             w_left |-> w.w_left, w_right |-> w.w_right,
             rec |-> IF status = "ok"
                     THEN [int_record(w) EXCEPT !.vinfo = rad.vinfo,
                                                !.radinfo = rad.radinfo]
                     ELSE NoRecord]
        Radial(w, rad) ==
            Return(w, rad,
                   IF w.err # "" THEN w.err ELSE IF rad.err # "" THEN rad.err ELSE "ok")
        Weighted(w) == Radial(w, RadialInterp(L, R, w.w_left, w.w_right))
    IN  Weighted(Weights(i_left, i_right, tidx[i_left], tidx[i_right], at))

(***************************************************************************)
(* Inputs                                                                  *)
(***************************************************************************)
Times == 0..MaxTime

QueryTimes == -1..(MaxTime + 1)

Lons == {0, 1}

\* keyword arguments of a Record as read_jtwc builds it (lines 1744-1753):
\* one threshold, the four quadrant radii as a 1-d array, rmax unknown
JtwcKw(t, x) ==
    [timestamp |-> t, lon |-> Int2V(x), lat |-> Int2V(0),
     mslp |-> Int2V(98000), vmax |-> Int2V(30), rmax |-> NaN,
     vinfo |-> VArray(<<Int2V(18)>>),
     radinfo |-> Rad1d([j \in 1..4 |-> Int2V(100000)])]

InputKw == {JtwcKw(t, x) : t \in Times, x \in Lons}

FreeSlot == NoRecord

MaxObj == MaxLen + MaxOps

Objs == 1..MaxObj

(***************************************************************************)
(* Track operations as actions on the one Track of the model               *)
(***************************************************************************)
\* Track(records) for an array of 1..MaxLen fresh Records
Construct(kws) ==
    LET n == Len(kws)
        h0 == [o \in Objs |-> IF o <= n THEN Record(kws[o]) ELSE FreeSlot]
        Built(t) ==
            /\ heap = t.heap
            /\ nalloc = n
            /\ records = t.records
            /\ timeindex = t.timeindex
            /\ result = [op |-> "init", status |-> "ok"]
            /\ nops = 0
    IN  Built(TrackInit(h0, [i \in 1..n |-> i]))

Init == \E n \in 1..MaxLen : \E kws \in [1..n -> InputKw] : Construct(kws)

\* attributes a Record instance answers to: dict keys are not attributes
RecordAttrs == {"center", "gen_radial_fields", "calc_rmax", "calculate_wind",
                "calculate_pressure"}

\* Track.append(records) with a single Record (lines 1138-1154)
AppendRecord ==
    \E kw \in InputKw :
        /\ nalloc < MaxObj
        /\ LET o == nalloc + 1
               h1 == [heap EXCEPT ![o] = Record(kw)]
               recs1 == Append(records, o)
           IN  IF "timestamp" \in RecordAttrs
               THEN LET s == Sort(recs1, TimesOf(h1, recs1))
                    IN  /\ heap' = calc_translation(h1, s.records, s.timeindex)
                        /\ records' = s.records
                        /\ timeindex' = s.timeindex
                        /\ result' = [op |-> "append", status |-> "ok"]
               ELSE /\ heap' = h1
                    /\ records' = recs1
                    /\ timeindex' = timeindex
                    /\ result' = [op |-> "append", status |-> "AttributeError"]
        /\ nalloc' = nalloc + 1

\* Track.append(records) with an ndarray: isinstance(records, (Record, np.array))
\* raises TypeError (np.array is a function), turned into Exception (line 1142)
AppendArray ==
    /\ result' = [op |-> "append", status |-> "Exception"]
    /\ UNCHANGED <<heap, nalloc, records, timeindex>>

\* the sub-Track a __getitem__ builds on the selected Record references
SubTrack(sel) ==
    LET Built(t) ==
            /\ heap' = t.heap
            /\ result' = [op |-> "getitem", status |-> "ok",
                          records |-> t.records, timeindex |-> t.timeindex]
            /\ UNCHANGED <<nalloc, records, timeindex>>
    IN  Built(TrackInit(heap, sel))

GetItemError(e) ==
    /\ result' = [op |-> "getitem", status |-> e, records |-> <<>>, timeindex |-> <<>>]
    /\ UNCHANGED <<heap, nalloc, records, timeindex>>

\* track[key], key an int (line 1058); a negative key counts from the end
GetItemInt ==
    \E key \in -1..Len(records) :
        LET n == Len(records)
            pos == IF key < 0 THEN n + key + 1 ELSE key + 1
        IN  IF pos < 1 \/ pos > n THEN GetItemError("IndexError")
            ELSE SubTrack(<<records[pos]>>)

\* track[start:stop] (line 1067)
GetItemSlice ==
    \E start \in 0..Len(records) : \E stop \in start..Len(records) :
        SubTrack(SubSeq(records, start + 1, stop))

\* track[np.array([i, j])] (line 1065)
GetItemArray ==
    \E i \in 0..(Len(records) - 1) : \E j \in 0..(Len(records) - 1) :
        SubTrack(<<records[i + 1], records[j + 1]>>)

\* the positions the boolean mask timeindex == key selects
Mask(key) == {i \in 1..Len(timeindex) : timeindex[i] = key}

SelectSeq2(recs, mask) ==
    LET F[i \in 0..Len(recs)] ==
            IF i = 0 THEN <<>>
            ELSE IF i \in mask THEN Append(F[i - 1], recs[i]) ELSE F[i - 1]
    IN  F[Len(recs)]

\* track[timestamp] (lines 1069-1074)
GetItemTime ==
    \E key \in Times :
        IF Len(records) # Len(timeindex) THEN GetItemError("IndexError")
        ELSE SubTrack(SelectSeq2(records, Mask(key)))

\* track[key] = value (lines 1078-1087)
SetItem ==
    \E key \in Times : \E kw \in InputKw :
        IF Len(records) # Len(timeindex)
        THEN /\ result' = [op |-> "setitem", status |-> "IndexError"]
             /\ UNCHANGED <<heap, nalloc, records, timeindex>>
        ELSE IF Mask(key) = {}
        THEN /\ result' = [op |-> "setitem", status |-> "ok"]
             /\ UNCHANGED <<heap, nalloc, records, timeindex>>
        ELSE /\ nalloc < MaxObj
             /\ heap' = [heap EXCEPT ![nalloc + 1] = Record(kw)]
             /\ nalloc' = nalloc + 1
             /\ records' = [i \in 1..Len(records) |->
                               IF i \in Mask(key) THEN nalloc + 1 ELSE records[i]]
             /\ result' = [op |-> "setitem", status |-> "ok"]
             /\ UNCHANGED timeindex

\* track.interpolate(at)
Interpolate ==
    \E at \in QueryTimes :
        /\ result' = interpolate(heap, records, timeindex, at)
        /\ UNCHANGED <<heap, nalloc, records, timeindex>>

\* one more call on the Track, within the budget of calls of a run
Call(op) == nops < MaxOps /\ nops' = nops + 1 /\ op

Next ==
    \/ Call(AppendRecord)
    \/ Call(AppendArray)
    \/ Call(GetItemInt)
    \/ Call(GetItemSlice)
    \/ Call(GetItemArray)
    \/ Call(GetItemTime)
    \/ Call(SetItem)
    \/ Call(Interpolate)

Spec == Init /\ [][Next]_vars

(***************************************************************************)
(* SpecQuery: a Track as constructed, queried by interpolate any number of *)
(* times.                                                                  *)
(***************************************************************************)
Query == Interpolate /\ UNCHANGED nops

SpecQuery == Init /\ [][Query]_vars

(***************************************************************************)
(* SpecInterp: a two-Record Track, 6 hours apart at (0E,0N) and (1E,0N),   *)
(* whose Records carry any of the optional fields, queried by interpolate. *)
(***************************************************************************)
Radii(r) == [j \in 1..4 |-> r]

\* the optional radial fields a Record is built with
Profiles ==
    { [x \in {} |-> NaN],
      [vinfo |-> VArray(<<Int2V(18)>>), radinfo |-> Rad1d(Radii(Int2V(100000)))],
      [vinfo |-> VArray(<<Int2V(18), Int2V(26)>>),
       radinfo |-> Rad2d(<<Radii(Int2V(100000)), Radii(Int2V(60000))>>)],
      [vinfo |-> VArray(<<NaN>>), radinfo |-> Rad1d(Radii(NaN))] }

Rmaxes == { [x \in {} |-> NaN], [rmax |-> Int2V(50000)] }

PairKw(t, x, rm, prof) ==
    [timestamp |-> t, lon |-> Int2V(x), lat |-> Int2V(0),
     mslp |-> Int2V(98000 - 1000 * x), vmax |-> Int2V(30 + 10 * x)] @@ rm @@ prof

\* threshold lists with an unknown (NaN) or a zero entry, and a third threshold
RaggedProfiles ==
    { [vinfo |-> VArray(<<Int2V(18), NaN>>),
       radinfo |-> Rad2d(<<Radii(Int2V(80000)), Radii(NaN)>>)],
      [vinfo |-> VArray(<<Int2V(0)>>), radinfo |-> Rad1d(Radii(Int2V(0)))],
      [vinfo |-> VArray(<<Int2V(0), Int2V(26)>>),
       radinfo |-> Rad2d(<<Radii(Int2V(0)), Radii(Int2V(50000))>>)],
      [vinfo |-> VArray(<<Int2V(18), Int2V(26), Int2V(33)>>),
       radinfo |-> Rad2d(<<Radii(Int2V(120000)), Radii(Int2V(80000)),
                           Radii(Int2V(40000))>>)] }

InitInterp ==
    \E rm1 \in Rmaxes, rm2 \in Rmaxes,
       p1 \in Profiles \cup RaggedProfiles, p2 \in Profiles \cup RaggedProfiles :
        Construct(<<PairKw(0, 0, rm1, p1), PairKw(2, 1, rm2, p2)>>)

SpecInterp == InitInterp /\ [][Query]_vars

(***************************************************************************)
(* Record methods.  Angles are counted in quarter turns, so that the       *)
(* sampling grid np.linspace(0, 2*np.pi, 5) is 0, 1, 2, 3, 4 and an        *)
(* interpolator interp1d(theta, y) is the sequence y of its five samples.  *)
(***************************************************************************)
\* dict item assignment and membership
SetKey(self, key, value) ==
    [kk \in DOMAIN self \cup {key} |-> IF kk = key THEN value ELSE self[kk]]

HasKey(self, key) == key \in DOMAIN self

\* np.sin and np.cos at q quarter turns
SinQ(q) == IF q % 4 = 1 THEN 1 ELSE IF q % 4 = 3 THEN -1 ELSE 0

CosQ(q) == IF q % 4 = 0 THEN 1 ELSE IF q % 4 = 2 THEN -1 ELSE 0

\* np.cos and np.sin of np.deg2rad(angle), tabulated at the angles the model
\* uses (19.2 degrees to six decimals)
CosDeg(angle) ==
    IF angle = Int2V(0) THEN Int2V(1)
    ELSE IF angle = Int2V(90) THEN Int2V(0)
    ELSE IF angle = Num(96, 5) THEN Num(944376, 1000000)
    ELSE NaN

SinDeg(angle) ==
    IF angle = Int2V(0) THEN Int2V(0)
    ELSE IF angle = Int2V(90) THEN Int2V(1)
    ELSE IF angle = Int2V(30) THEN Num(1, 2)
    ELSE IF angle = Int2V(-30) THEN Num(-1, 2)
    ELSE IF angle = Int2V(-90) THEN Int2V(-1)
    ELSE IF angle = Num(96, 5) THEN Num(328867, 1000000)
    ELSE NaN

\* np.exp(1) to three decimals
Euler == Num(2718, 1000)

RECURSIVE ISqrtIn(_, _, _)
ISqrtIn(n, lo, hi) ==
    IF lo >= hi THEN lo
    ELSE LET mid == (lo + hi + 1) \div 2
         IN  IF mid * mid <= n THEN ISqrtIn(n, mid, hi) ELSE ISqrtIn(n, lo, mid - 1)

ISqrt(n) == ISqrtIn(n, 0, Min(n, 46340))

\* np.sqrt: exact on a square of a rational, to two decimals otherwise
VSqrt(a) ==
    IF a.k = "nan" THEN NaN
    ELSE IF Symbolic(a) THEN Opaque
    ELSE IF a.k = "inf" THEN (IF a.n > 0 THEN a ELSE NaN)
    ELSE IF a.n < 0 THEN NaN
    ELSE LET rn == ISqrt(a.n)
             rd == ISqrt(a.d)
         IN  IF rn * rn = a.n /\ rd * rd = a.d THEN Num(rn, rd)
             ELSE Num(ISqrt((a.n * 10000) \div a.d), 100)

\* np.exp to three decimals: the (2,2) Pade approximant at x rounded to two
\* decimals
VExp(x) ==
    IF x.k = "nan" THEN NaN
    ELSE IF Symbolic(x) THEN Opaque
    ELSE IF x.k = "inf" THEN (IF x.n > 0 THEN x ELSE Int2V(0))
    ELSE LET Round(e) == Num((e.n * 1000) \div e.d, 1000)
             Ratio(h, y2) ==
                 VDiv(VAdd(VAdd(Int2V(1), h), y2), VAdd(VSub(Int2V(1), h), y2))
             Pade(y) == Ratio(VDiv(y, Int2V(2)), VDiv(VMul(y, y), Int2V(12)))
         IN  Round(Pade(Num((x.n * 100) \div x.d, 100)))

VAbs(a) == IF VLt(a, Int2V(0)) THEN VNeg(a) ELSE a

\* conversion.pa2mb and conversion.km2m
pa2mb(p) == VDiv(p, Int2V(100))

km2m(x) == VMul(x, Int2V(1000))

coriolis(lat) == VMul(Num(2 * 7292, 100000000), SinDeg(lat))

\* calc_rmax_s02 with negative radii cut off at 0
calc_rmax_s02_clamped(mslp) ==
    LET rmax == km2m(VSub(VMul(Num(4785, 10000), pa2mb(mslp)), Int2V(413)))
    IN  IF VLt(rmax, Int2V(0)) THEN Int2V(0) ELSE rmax

calc_rmax_s02(mslp) ==
    km2m(VSub(VMul(Num(4785, 10000), pa2mb(mslp)), Int2V(413)))

calc_rmax_w04(vmax, lat) ==
    km2m(VMul(Num(516, 10),
              VExp(VAdd(VMul(Num(-223, 10000), vmax), VMul(Num(281, 10000), lat)))))

\* the clamp of calc_holland_B and calc_holland_B_full: a NaN passes through
ClampB(B, bmax, bmin) ==
    IF VLt(B, bmin) THEN bmin ELSE IF VLt(bmax, B) THEN bmax ELSE B

calc_holland_B(vmax, pc, pn, rhoair, bmax, bmin) ==
    ClampB(VDiv(VMul(VMul(VMul(vmax, vmax), rhoair), Euler), VSub(pn, pc)),
           bmax, bmin)

calc_holland_B_full(vmax, rmax, pc, f, pn, rhoair, bmax, bmin) ==
    ClampB(VDiv(VAdd(VMul(VMul(VMul(vmax, vmax), rhoair), Euler),
                     VMul(VMul(VMul(VMul(f, vmax), rmax), Euler), rhoair)),
                VSub(pn, pc)),
           bmax, bmin)

\* f(x) for an interpolator f built on the five sampled angles: a ValueError
\* outside of them, the sample itself at a sampled angle
Eval(f, x) ==
    IF VLt(x, Int2V(0)) \/ VLt(Int2V(4), x) THEN [err |-> "ValueError", v |-> NaN]
    ELSE IF ~IsNum(x) THEN [err |-> "", v |-> NaN]
    ELSE LET j == Cardinality({k \in 1..3 : VLe(Int2V(k), x)})
         IN  [err |-> "",
              v |-> IF x = Int2V(j) THEN f[j + 1]
                    ELSE IF x = Int2V(4) THEN f[5]
                    ELSE VAdd(f[j + 1],
                              VMul(VSub(f[j + 2], f[j + 1]), VSub(x, Int2V(j))))]

\* lines 395-398 and 407-409: the wind amplitude at the five sampled angles
\* once the fraction of the translation (ustorm, vstorm) is removed
Amplitude(vel, ustorm, vstorm, fraction, swrf) ==
    LET Norm(vx, vy) == VDiv(VSqrt(VAdd(VMul(vx, vx), VMul(vy, vy))), swrf)
    IN  [i \in 1..5 |->
            Norm(VSub(VMul(VMul(vel, Int2V(SinQ(i - 1))), Int2V(-1)),
                      VMul(fraction, ustorm)),
                 VSub(VMul(vel, Int2V(CosQ(i - 1))), VMul(fraction, vstorm)))]

\* lines 403-416: the loop over the thresholds, from entry i of the vinfo the
\* loop started with; acc = [err, self, fvinfo, fradinfo]
RECURSIVE ThresholdFields(_, _, _, _)
ThresholdFields(acc, vin, i, p) ==
    IF i > Len(vin) \/ acc.err # "" THEN acc
    ELSE IF IsNaN(vin[i])
    THEN ThresholdFields(
             [acc EXCEPT !.self = SetKey(SetKey(@, "vinfo", ScalarNaN),
                                         "radinfo", RadScalarNaN)],
             vin, i + 1, p)
    ELSE LET rad == acc.self.radinfo
             err == IF rad.dim = 0 THEN "TypeError"
                    ELSE IF rad.dim = 1 THEN "IndexError"
                    ELSE IF i > Len(rad.rows) THEN "IndexError"
                    ELSE IF Len(rad.rows[i]) = 0 THEN "IndexError"
                    ELSE IF Len(rad.rows[i]) # 4 THEN "ValueError"
                    ELSE ""
         IN  IF err # "" THEN [acc EXCEPT !.err = err]
             ELSE ThresholdFields(
                      [acc EXCEPT
                          !.fvinfo = Append(@, Amplitude(vin[i], p.ustorm, p.vstorm,
                                                         p.fraction, p.swrf)),
                          !.fradinfo = Append(@, Append(rad.rows[i], rad.rows[i][1]))],
                      vin, i + 1, p)

\* Record.gen_radial_fields: [err, self]; self holds what was assigned before
\* an error was raised
gen_radial_fields(self, fraction, angle, swrf) ==
    LET nostorm == IsNaN(self.ustorm) \/ IsNaN(self.vstorm)
        \* lines 421-422
        Assign(loop) ==
            IF loop.err # "" THEN [err |-> loop.err, self |-> loop.self]
            ELSE [err |-> "",
                  self |-> SetKey(SetKey(loop.self, "fvinfo", loop.fvinfo),
                                  "fradinfo", loop.fradinfo)]
        \* lines 397-419
        Fields(ustorm, vstorm) ==
            Assign(ThresholdFields(
                       [err |-> "",
                        self |-> SetKey(self, "fvmax",
                                        Amplitude(self.vmax, ustorm, vstorm,
                                                  fraction, swrf)),
                        fvinfo |-> <<>>, fradinfo |-> <<>>],
                       self.vinfo.v, 1,
                       [ustorm |-> ustorm, vstorm |-> vstorm,
                        fraction |-> fraction, swrf |-> swrf]))
    IN  Fields(IF nostorm THEN Int2V(0)
               ELSE VSub(VMul(self.ustorm, CosDeg(angle)),
                         VMul(self.vstorm, SinDeg(angle))),
               IF nostorm THEN Int2V(0)
               ELSE VAdd(VMul(self.ustorm, SinDeg(angle)),
                         VMul(self.vstorm, CosDeg(angle))))

\* interp1d(theta, np.ones_like(theta)*value)
Broadcast(value) == [i \in 1..5 |-> value]

\* calc_rmax_e11 and calc_rmax_h80: the root the solver returns is outside the
\* arithmetic of the model and is given by root[method]; a solver keyword
\* other than scan and fsolve leaves rmax_solved unbound
Solve(method, solver, root) ==
    IF solver \in {"scan", "fsolve"} THEN [err |-> "", v |-> root[method]]
    ELSE [err |-> "UnboundLocalError", v |-> NaN]

\* lines 522-566: what method assigns to rmax_fv_theta[i]; a name none of
\* the four tests matches assigns nothing
MethodValue(c, method, i) ==
    IF method = "E11" THEN Solve("E11", c.kw_e11.solver, c.root) @@ [assigned |-> TRUE]
    ELSE IF method = "H80" THEN Solve("H80", c.kw_h80.solver, c.root) @@ [assigned |-> TRUE]
    ELSE IF method = "S02"
    THEN [err |-> "", v |-> calc_rmax_s02(c.self.mslp), assigned |-> TRUE]
    ELSE IF method = "W04"
    THEN [err |-> "", v |-> calc_rmax_w04(c.self.fvmax[i], c.self.lat), assigned |-> TRUE]
    ELSE [err |-> "", v |-> NaN, assigned |-> FALSE]

\* the window of method j closed on the right
InWindowClosed(v, vlimit, j) ==
    /\ VLe(IF j = 1 THEN Int2V(0) ELSE vlimit[j - 1], v)
    /\ VLe(v, vlimit[j])

\* the window [vlimit[j-1], vlimit[j]) of method j, vlimit[0] = 0
InWindow(v, vlimit, j) ==
    /\ VLe(IF j = 1 THEN Int2V(0) ELSE vlimit[j - 1], v)
    /\ VLt(v, vlimit[j])

\* the ladder cut after its first method: no later method is tried
MethodLoopFirst(c, k, i, j) ==
    IF InWindow(c.self.fvinfo[k][i], c.vlimit, 1)
       /\ MethodValue(c, c.methods[1], i).err = ""
    THEN MethodValue(c, c.methods[1], i).v
    ELSE Int2V(1)

\* lines 515-572: rmax_fv_theta[i] for threshold k, trying the methods from
\* the j-th on; the placeholder 1.0 stays when none assigns
RECURSIVE MethodLoop(_, _, _, _)
MethodLoop(c, k, i, j) ==
    IF j > Len(c.methods) THEN Int2V(1)
    ELSE LET Try(out) ==
                 IF ~InWindow(c.self.fvinfo[k][i], c.vlimit, j) \/ out.err # ""
                 THEN MethodLoop(c, k, i, j + 1)
                 ELSE IF out.assigned THEN out.v ELSE Int2V(1)
         IN  Try(MethodValue(c, c.methods[j], i))

\* np.all(np.isnan(self['vinfo']))
NoRadialInfo(self) == \A i \in DOMAIN self.vinfo.v : IsNaN(self.vinfo.v[i])

\* Record.calc_rmax: [err, self].  frmax is one interpolator (arr FALSE) or an
\* array of them (arr TRUE).
calc_rmax(self, methods, use_rmax_info, vlimit, kw_h80, kw_e11, root) ==
    IF Len(vlimit) # Len(methods) THEN [err |-> "Exception", self |-> self]
    ELSE IF ~IsNaN(self.rmax) /\ use_rmax_info
    THEN [err |-> "",
          self |-> SetKey(self, "frmax", [arr |-> FALSE, fs |-> <<Broadcast(self.rmax)>>])]
    ELSE IF NoRadialInfo(self)
    THEN IF ~IsNaN(self.mslp)
         THEN [err |-> "",
               self |-> SetKey(self, "frmax",
                               [arr |-> FALSE,
                                fs |-> <<Broadcast(calc_rmax_s02(self.mslp))>>])]
         ELSE IF ~IsNaN(self.vmax)
         THEN [err |-> "",
               self |-> SetKey(self, "frmax",
                               [arr |-> FALSE,
                                fs |-> <<Broadcast(calc_rmax_w04(self.vmax, self.lat))>>])]
         ELSE [err |-> "UnboundLocalError", self |-> self]
    ELSE IF ~HasKey(self, "fvinfo") \/ ~HasKey(self, "fradinfo")
    THEN [err |-> "KeyError", self |-> self]
    ELSE LET c == [self |-> self, methods |-> methods, vlimit |-> vlimit,
                   kw_h80 |-> kw_h80, kw_e11 |-> kw_e11, root |-> root]
             n == Min(Len(self.fvinfo), Len(self.fradinfo))
             frmax == [k \in 1..n |-> [i \in 1..5 |-> MethodLoop(c, k, i, 1)]]
         IN  [err |-> "",
              self |-> SetKey(SetKey(self, "frmax", [arr |-> TRUE, fs |-> frmax]),
                              "rmax_method", <<>>)]

(***************************************************************************)
(* calculate_wind and calculate_pressure at the point (r, theta_input),    *)
(* theta_input an integer number of quarter turns in -2..2                 *)
(***************************************************************************)
\* lines 645-651: the bearing the interpolators are evaluated at
Theta(theta_input) ==
    LET theta == -1 * theta_input + 1
    IN  IF theta_input < 0 THEN 4 + theta_input ELSE theta_input

\* [f(theta) for f in np.atleast_1d(self['frmax'])]
RmaxAt(self, theta) ==
    [k \in 1..Len(self.frmax.fs) |-> Eval(self.frmax.fs[k], Int2V(theta)).v]

\* [radi(theta) for radi in self['fradinfo']]
RadinfoAt(self, theta) ==
    [k \in 1..Len(self.fradinfo) |-> Eval(self.fradinfo[k], Int2V(theta)).v]

\* np.mean of a non-empty list
Mean(xs) ==
    LET S[i \in 0..Len(xs)] == IF i = 0 THEN Int2V(0) ELSE VAdd(S[i - 1], xs[i])
    IN  VDiv(S[Len(xs)], Int2V(Len(xs)))

\* np.argmin, 1-based
ArgMin(xs) ==
    CHOOSE i \in 1..Len(xs) :
        /\ \A j \in 1..Len(xs) : VLe(xs[i], xs[j])
        /\ \A j \in 1..(i - 1) : xs[j] # xs[i]

\* lines 685-695: interp1d over the radii, sorted, extended by -inf and +inf
\* with the first and the last rmax, evaluated at r
LinearAt(rad, rmaxinfo, r) ==
    LET n == Len(rad)
        rank(i) == 1 + Cardinality({j \in 1..n :
                        VLt(rad[j], rad[i]) \/ (rad[j] = rad[i] /\ j < i)})
        ord == [q \in 1..n |-> CHOOSE i \in 1..n : rank(i) = q]
        xs == [q \in 1..n |-> rad[ord[q]]]
        ys == [q \in 1..n |-> rmaxinfo[ord[q]]]
    IN  IF VLt(r, xs[1]) THEN ys[1]
        ELSE IF VLe(xs[n], r) THEN ys[n]
        ELSE LET j == CHOOSE j \in 1..(n - 1) : VLe(xs[j], r) /\ VLt(r, xs[j + 1])
             IN  VAdd(ys[j], VMul(VDiv(VSub(ys[j + 1], ys[j]), VSub(xs[j + 1], xs[j])),
                                  VSub(r, xs[j])))

rmax_select_methods_available == {"mean", "nearest", "linear"}

\* lines 666-712 and 910-956: [err, bound, rmax].  rmax_select is
\* [type, v, k]: the str v, the int k, or a value of another type.  Every `raise
\* Warning(...)` leaves the method with the exception Warning; a failed
\* lookup of self['frmax'] inside a handler leaves it with KeyError.
SelectRmax(self, r, theta, rmax_select) ==
    LET Found(rmax) == [err |-> "", bound |-> TRUE, rmax |-> rmax]
        \* np.argmin of the distances of the radii to r
        Nearest(warning, values, imin) ==
            IF imin > Len(values) THEN warning ELSE Found(values[imin])
        Select(warning, values, radinfo) ==
            IF rmax_select.type = "str"
            THEN IF rmax_select.v \notin rmax_select_methods_available THEN warning
                 ELSE IF rmax_select.v = "mean" THEN Found(Mean(values))
                 ELSE IF ~HasKey(self, "fradinfo") THEN warning
                 ELSE IF rmax_select.v = "nearest"
                 THEN IF Len(radinfo) = 0 THEN warning
                      ELSE Nearest(warning, values,
                                   ArgMin([k \in 1..Len(radinfo) |->
                                              VAbs(VSub(radinfo[k], r))]))
                 ELSE IF Len(radinfo) # Len(values) THEN warning
                      ELSE Found(LinearAt(radinfo, values, r))
            ELSE IF rmax_select.type = "int"
            THEN IF rmax_select.k >= Len(values) \/ rmax_select.k < -Len(values)
                 THEN warning
                 ELSE [err |-> "", bound |-> FALSE, rmax |-> NaN]
            ELSE warning
    IN  IF ~HasKey(self, "frmax") THEN [err |-> "KeyError", bound |-> FALSE, rmax |-> NaN]
        ELSE Select([err |-> "Warning", bound |-> TRUE,
                     rmax |-> Eval(self.frmax.fs[1], Int2V(theta)).v],
                    RmaxAt(self, theta),
                    IF HasKey(self, "fradinfo") THEN RadinfoAt(self, theta) ELSE <<>>)

\* the bands with their upper boundary included
RECURSIVE BandClosed(_, _, _, _)
BandClosed(r, rmax, rmax_frac, i) ==
    IF i > Len(rmax_frac) THEN 0
    ELSE IF /\ VLe(VMul(IF i = 1 THEN Int2V(0) ELSE rmax_frac[i - 1], rmax), r)
            /\ VLe(r, VMul(rmax_frac[i], rmax))
         THEN i
         ELSE BandClosed(r, rmax, rmax_frac, i + 1)

\* the index of the first method whose band [rlim_min, rlim_max) holds r,
\* 0 when no band does
RECURSIVE Band(_, _, _, _)
Band(r, rmax, rmax_frac, i) ==
    IF i > Len(rmax_frac) THEN 0
    ELSE LET rlim_min == VMul(IF i = 1 THEN Int2V(0) ELSE rmax_frac[i - 1], rmax)
             rlim_max == VMul(rmax_frac[i], rmax)
         IN  IF VLe(rlim_min, r) /\ VLt(r, rlim_max) THEN i
             ELSE Band(r, rmax, rmax_frac, i + 1)

\* what both methods do before the loop over the bands:
\* [err, theta, vmax, rmax, band]
FieldCall(self, r, theta_input, methods, rmax_frac, rmax_select) ==
    LET theta == Theta(theta_input)
        none == [err |-> "", theta |-> theta, vmax |-> NaN, rmax |-> NaN, band |-> 0]
        Selected(vmax, sel) ==
            IF sel.err # ""
            THEN [none EXCEPT !.err = sel.err, !.vmax = vmax, !.rmax = sel.rmax]
            ELSE IF Len(rmax_frac) # Len(methods)
            THEN [none EXCEPT !.err = "Exception", !.vmax = vmax, !.rmax = sel.rmax]
            ELSE IF ~sel.bound
            THEN [none EXCEPT !.err = "UnboundLocalError", !.vmax = vmax]
            ELSE [none EXCEPT !.vmax = vmax, !.rmax = sel.rmax,
                              !.band = Band(r, sel.rmax, rmax_frac, 1)]
    IN  IF ~HasKey(self, "fvmax") THEN [none EXCEPT !.err = "KeyError"]
        ELSE Selected(Eval(self.fvmax, Int2V(theta)).v,
                      SelectRmax(self, r, theta, rmax_select))

VcircMethods == {"H80", "H80c", "J92", "W06", "E04", "E11", "M16"}

\* lines 734-819: the circular wind speed of the method, as a term of the
\* arguments handed to the profile function (E04 and E11 after their clamp at 0)
\* lines 181-286: every calc_vcirc_* is 0.0 at r = 0 for a positive Rm and
\* numeric arguments (r or a power of r/Rm is a factor; in the H80 forms
\* np.exp(-(Rm/1e-8)**B) underflows to 0.0)
AtCentre(r, rmax, vcirc) ==
    IF r = Int2V(0) /\ IsNum(rmax) /\ rmax.n > 0 /\ vcirc.k = "sym" THEN Int2V(0)
    ELSE vcirc

Vcirc(self, method, r, rmax, vmax, kw) ==
    LET f == coriolis(self.lat)
        pc == self.mslp
        pn == kw.atmos.pn
        rhoair == kw.atmos.rhoair
    IN  AtCentre(r, rmax,
        IF method = "H80"
        THEN Term("calc_vcirc_h80",
                  <<r, rmax, pc,
                    calc_holland_B_full(vmax, rmax, pc, f, pn, rhoair,
                                        kw.h80.bmax, kw.h80.bmin),
                    pn, rhoair, f>>)
        ELSE IF method = "H80c"
        THEN Term("calc_vcirc_h80c",
                  <<r, rmax, pc,
                    calc_holland_B(vmax, pc, pn, rhoair, kw.h80.bmax, kw.h80.bmin),
                    pn, rhoair>>)
        ELSE IF method = "J92" THEN Term("calc_vcirc_j92", <<r, rmax, vmax>>)
        ELSE IF method = "W06"
        THEN Term("calc_vcirc_w06", <<r, rmax, vmax, kw.w06.n, kw.w06.X>>)
        ELSE IF method = "E04"
        THEN Term("calc_vcirc_e04",
                  <<r, rmax, vmax, kw.e04.b, kw.e04.m, kw.e04.n, kw.e04.R0>>)
        ELSE IF method = "E11" THEN Term("calc_vcirc_e11", <<r, rmax, vmax, f>>)
        ELSE Term("calc_vcirc_m16", <<r, rmax, vmax, kw.m16.n>>))

\* the radial factor that is 0 everywhere
RadialZero(r) == Int2V(0)

\* r/np.max([r, 1e-8]) for r = 0 or r >= 1e-8
RadialUnit(r) == IF r = Int2V(0) THEN Int2V(0) ELSE Int2V(1)

NoField == [op |-> "", status |-> "", r |-> NaN, theta_input |-> 0,
            rmax_select |-> [type |-> "", v |-> "", k |-> 0], methods |-> <<>>,
            rmax_frac |-> <<>>,
            theta |-> 0, vmax |-> NaN, rmax |-> NaN, method |-> "",
            u |-> NaN, v |-> NaN, mslp |-> NaN]

\* Record.calculate_wind
calculate_wind(self, r, theta_input, methods, rmax_frac, rmax_select, kw) ==
    LET \* lines 829-851: components, translation added back, averaging factor
        Components(vcirc, utrans, vtrans, notrans) ==
            [u |-> VMul(IF notrans
                        THEN VMul(VMul(VNeg(vcirc), RadialUnit(r)),
                                  Int2V(SinQ(theta_input)))
                        ELSE VAdd(VMul(VMul(VNeg(vcirc), RadialUnit(r)),
                                       Int2V(SinQ(theta_input))),
                                  VMul(kw.corr.fraction, utrans)),
                        kw.corr.tfac),
             v |-> VMul(IF notrans
                        THEN VMul(VMul(vcirc, RadialUnit(r)), Int2V(CosQ(theta_input)))
                        ELSE VAdd(VMul(VMul(vcirc, RadialUnit(r)),
                                       Int2V(CosQ(theta_input))),
                                  VMul(kw.corr.fraction, vtrans)),
                        kw.corr.tfac)]
        Translated(vcirc, utrans, vtrans) ==
            Components(vcirc, utrans, vtrans, IsNaN(utrans) \/ IsNaN(vtrans))
        Wind(vcirc) ==
            Translated(vcirc,
                       VSub(VMul(self.ustorm, CosDeg(kw.corr.angle)),
                            VMul(self.vstorm, SinDeg(kw.corr.angle))),
                       VAdd(VMul(self.ustorm, SinDeg(kw.corr.angle)),
                            VMul(self.vstorm, CosDeg(kw.corr.angle))))
        Field(call, method, uv) ==
            [call EXCEPT !.status = "ok", !.method = method, !.u = uv.u, !.v = uv.v]
        Banded(pre, call, method) ==
            IF pre.err # "" THEN [call EXCEPT !.status = pre.err]
            ELSE IF method \notin VcircMethods
            THEN [call EXCEPT !.status = "UnboundLocalError"]
            ELSE Field(call, method,
                       Wind(VMul(Vcirc(self, method, r, pre.rmax, pre.vmax, kw),
                                 kw.corr.swrf)))
        Called(pre) ==
            Banded(pre,
                   [NoField EXCEPT !.op = "calculate_wind", !.r = r,
                                   !.theta_input = theta_input,
                                   !.rmax_select = rmax_select, !.methods = methods,
                                   !.rmax_frac = rmax_frac,
                                   !.theta = pre.theta, !.vmax = pre.vmax,
                                   !.rmax = pre.rmax],
                   IF pre.band = 0 THEN "" ELSE methods[pre.band])
    IN  Called(FieldCall(self, r, theta_input, methods, rmax_frac, rmax_select))

MslpMethods == {"H80", "H80c"}

\* lines 970-1001: the pressure of the method, as a term of the arguments
\* handed to calc_mslp_h80
Mslp(self, method, r, rmax, vmax, kw) ==
    LET f == coriolis(self.lat)
        pc == self.mslp
        pn == kw.atmos.pn
        rhoair == kw.atmos.rhoair
        B == IF method = "H80"
             THEN calc_holland_B_full(vmax, rmax, pc, f, pn, rhoair,
                                      kw.h80.bmax, kw.h80.bmin)
             ELSE calc_holland_B(vmax, pc, pn, rhoair, kw.h80.bmax, kw.h80.bmin)
    IN  Term("calc_mslp_h80", <<r, rmax, pc, B, pn>>)

\* Record.calculate_pressure
calculate_pressure(self, r, theta_input, methods, rmax_frac, rmax_select, kw) ==
    LET Banded(pre, call, method) ==
            IF pre.err # "" THEN [call EXCEPT !.status = pre.err]
            ELSE IF method \notin MslpMethods
            THEN [call EXCEPT !.status = "UnboundLocalError"]
            ELSE [call EXCEPT !.status = "ok", !.method = method,
                              !.mslp = Mslp(self, method, r, pre.rmax, pre.vmax, kw)]
        Called(pre) ==
            Banded(pre,
                   [NoField EXCEPT !.op = "calculate_pressure", !.r = r,
                                   !.theta_input = theta_input,
                                   !.rmax_select = rmax_select, !.methods = methods,
                                   !.rmax_frac = rmax_frac,
                                   !.theta = pre.theta, !.vmax = pre.vmax,
                                   !.rmax = pre.rmax],
                   IF pre.band = 0 THEN "" ELSE methods[pre.band])
    IN  Called(FieldCall(self, r, theta_input, methods, rmax_frac, rmax_select))

(***************************************************************************)
(* SpecRecord: one Record, prepared by gen_radial_fields and calc_rmax in  *)
(* any order and number, then evaluated by calculate_wind or               *)
(* calculate_pressure.  The two evaluations change nothing of the Record,  *)
(* so a run is followed up to its first evaluation.                        *)
(***************************************************************************)
\* the Record the methods are called on
Self == heap[records[1]]

\* one threshold with its radii as a 4-column row, as np.atleast_2d gives it
OneThreshold ==
    [vinfo |-> VArray(<<Int2V(18)>>), radinfo |-> Rad2d(<<Radii(Int2V(100000))>>)]

\* one threshold of 30 m/s with the radii of a full-circle report
FullCircle ==
    [vinfo |-> VArray(<<Int2V(30)>>),
     radinfo |-> Rad2d(<<<<Int2V(50000), Int2V(60000), Int2V(55000), Int2V(45000)>>>>)]

KnownFields ==
    { [mslp |-> Int2V(98000), vmax |-> Int2V(30)],
      [mslp |-> NaN, vmax |-> Int2V(30)],
      [mslp |-> NaN, vmax |-> NaN] }

\* a translation velocity supplied to the constructor: 0.56 of it is 16 m/s
Storm == [ustorm |-> Num(200, 7), vstorm |-> Int2V(0)]

\* two thresholds, one of them unknown (NaN), with their radii as a 2-d array
NaNProfiles ==
    { [vinfo |-> VArray(<<Int2V(18), NaN>>),
       radinfo |-> Rad2d(<<[j \in 1..4 |-> Int2V(80000)], [j \in 1..4 |-> NaN]>>)],
      [vinfo |-> VArray(<<NaN, Int2V(26)>>),
       radinfo |-> Rad2d(<<[j \in 1..4 |-> NaN], [j \in 1..4 |-> Int2V(50000)]>>)] }

RecordKw ==
    { [timestamp |-> 0, lon |-> Int2V(0), lat |-> Int2V(0)] @@ kf @@ rm @@ prof :
        kf \in KnownFields, rm \in Rmaxes,
        prof \in Profiles \cup {OneThreshold, FullCircle} }
    \cup
    { [timestamp |-> 0, lon |-> Int2V(0), lat |-> Int2V(0),
       mslp |-> Int2V(98000), vmax |-> Int2V(30)] @@ prof : prof \in NaNProfiles }
    \cup
    { [timestamp |-> 0, lon |-> Int2V(0), lat |-> Int2V(0),
       mslp |-> Int2V(98000), vmax |-> Int2V(30)] @@ rm @@ OneThreshold @@ Storm :
        rm \in Rmaxes }

InitRecord == \E kw \in RecordKw : Construct(<<kw>>)

\* the keyword arguments of the methods
kw_corr == [fraction |-> Num(56, 100), angle |-> Num(96, 5),
            swrf |-> Num(9, 10), tfac |-> Num(88, 100)]

kw_atmos == [pn |-> Int2V(101325), rhoair |-> Num(115, 100)]

FieldKw ==
    [corr |-> kw_corr, atmos |-> kw_atmos,
     h80 |-> [bmax |-> Num(25, 10), bmin |-> Num(5, 10)],
     e04 |-> [b |-> Num(25, 100), m |-> Num(16, 10), n |-> Num(9, 10),
              R0 |-> Int2V(420000)],
     w06 |-> [n |-> Num(79, 100), X |-> Int2V(243000)],
     m16 |-> [n |-> Num(6, 10)]]

\* methods, vlimit and solver of a calc_rmax call: the defaults, a vlimit
\* that ends at 25 m/s, a solver keyword that is none of the solvers, and a
\* vlimit that is not ascending (the windows of E11 and S02 overlap)
RmaxConfigs ==
    { [methods |-> <<"H80", "E11">>, vlimit |-> <<Int2V(20), Inf(1)>>, solver |-> "fsolve"],
      [methods |-> <<"H80", "E11">>, vlimit |-> <<Int2V(20), Int2V(25)>>, solver |-> "fsolve"],
      [methods |-> <<"E11", "S02">>, vlimit |-> <<Int2V(25), Inf(1)>>, solver |-> "bisect"],
      [methods |-> <<"E11", "H80", "S02">>, vlimit |-> <<Int2V(25), Int2V(0), Inf(1)>>,
       solver |-> "bisect"] }

\* the roots the solvers may return
SolverRoots ==
    { [E11 |-> Int2V(20000), H80 |-> Int2V(40000)],
      [E11 |-> Int2V(40000), H80 |-> Int2V(20000)] }

FieldRadii == {Int2V(0), Int2V(49999), Int2V(50000), Int2V(200000)}

ThetaInputs == {-1, 0, 2}

RmaxSelects ==
    { [type |-> "str", v |-> "mean", k |-> 0],
      [type |-> "str", v |-> "nearest", k |-> 0],
      [type |-> "str", v |-> "linear", k |-> 0],
      [type |-> "str", v |-> "max", k |-> 0],
      [type |-> "int", v |-> "", k |-> 0],
      [type |-> "int", v |-> "", k |-> 1],
      [type |-> "int", v |-> "", k |-> 5],
      [type |-> "float", v |-> "", k |-> 0] }

WindConfigs ==
    { [methods |-> <<"E11", "H80">>, rmax_frac |-> <<Int2V(2), Inf(1)>>],
      [methods |-> <<"J92", "H80c">>, rmax_frac |-> <<Int2V(1), Inf(1)>>] }

PressureConfigs == { [methods |-> <<"H80">>, rmax_frac |-> <<Inf(1)>>] }

Evaluated == result.op \in {"calculate_wind", "calculate_pressure"}

\* the angle argument of gen_radial_fields: the default, and 0 degrees for a
\* Record with a translation velocity
GenAngle(self) ==
    IF IsNaN(self.ustorm) \/ IsNaN(self.vstorm) THEN kw_corr.angle ELSE Int2V(0)

GenRadialFields ==
    /\ ~Evaluated
    /\ LET Done(out) ==
               /\ heap' = [heap EXCEPT ![records[1]] = out.self]
               /\ result' = [op |-> "gen_radial_fields",
                             status |-> IF out.err = "" THEN "ok" ELSE out.err]
       IN  Done(gen_radial_fields(Self, kw_corr.fraction, GenAngle(Self), kw_corr.swrf))
    /\ UNCHANGED <<nalloc, records, timeindex, nops>>

CalcRmax ==
    /\ ~Evaluated
    /\ \E use_rmax_info \in BOOLEAN, cfg \in RmaxConfigs, root \in SolverRoots :
        LET Done(out) ==
                /\ heap' = [heap EXCEPT ![records[1]] = out.self]
                /\ result' = [op |-> "calc_rmax",
                              status |-> IF out.err = "" THEN "ok" ELSE out.err,
                              use_rmax_info |-> use_rmax_info, methods |-> cfg.methods,
                              vlimit |-> cfg.vlimit, solver |-> cfg.solver, root |-> root]
        IN  Done(calc_rmax(Self, cfg.methods, use_rmax_info, cfg.vlimit,
                           [solver |-> cfg.solver], [solver |-> cfg.solver], root))
    /\ UNCHANGED <<nalloc, records, timeindex, nops>>

CalculateWind ==
    /\ ~Evaluated
    /\ \E r \in FieldRadii, theta_input \in ThetaInputs, cfg \in WindConfigs,
          rmax_select \in RmaxSelects :
        result' = calculate_wind(Self, r, theta_input, cfg.methods, cfg.rmax_frac,
                                 rmax_select, FieldKw)
    /\ UNCHANGED <<heap, nalloc, records, timeindex, nops>>

CalculatePressure ==
    /\ ~Evaluated
    /\ \E r \in FieldRadii, theta_input \in ThetaInputs, cfg \in PressureConfigs,
          rmax_select \in RmaxSelects :
        result' = calculate_pressure(Self, r, theta_input, cfg.methods, cfg.rmax_frac,
                                     rmax_select, FieldKw)
    /\ UNCHANGED <<heap, nalloc, records, timeindex, nops>>

NextRecord ==
    \/ GenRadialFields
    \/ CalcRmax
    \/ CalculateWind
    \/ CalculatePressure

SpecRecord == InitRecord /\ [][NextRecord]_vars

(***************************************************************************)
(* SpecFlow: the Record Track.interpolate returns, handed to calc_rmax and *)
(* then to calculate_wind or calculate_pressure.  The returned Record is   *)
(* no Record of the Track: it is held in result.rec.                       *)
(***************************************************************************)
FlowInterpolate ==
    /\ result.op = "init"
    /\ Interpolate
    /\ UNCHANGED nops

FlowCalcRmax ==
    /\ result.op = "interpolate"
    /\ result.status = "ok"
    /\ \E use_rmax_info \in BOOLEAN, cfg \in RmaxConfigs, root \in SolverRoots :
        LET Done(out) ==
                result' = [op |-> "calc_rmax",
                           status |-> IF out.err = "" THEN "ok" ELSE out.err,
                           rec |-> out.self]
        IN  Done(calc_rmax(result.rec, cfg.methods, use_rmax_info, cfg.vlimit,
                           [solver |-> cfg.solver], [solver |-> cfg.solver], root))
    /\ UNCHANGED <<heap, nalloc, records, timeindex, nops>>

FlowCalculateWind ==
    /\ result.op = "calc_rmax"
    /\ result.status = "ok"
    /\ \E r \in FieldRadii, theta_input \in ThetaInputs, cfg \in WindConfigs,
          rmax_select \in RmaxSelects :
        result' = calculate_wind(result.rec, r, theta_input, cfg.methods,
                                 cfg.rmax_frac, rmax_select, FieldKw)
    /\ UNCHANGED <<heap, nalloc, records, timeindex, nops>>

FlowCalculatePressure ==
    /\ result.op = "calc_rmax"
    /\ result.status = "ok"
    /\ \E r \in FieldRadii, theta_input \in ThetaInputs, cfg \in PressureConfigs,
          rmax_select \in RmaxSelects :
        result' = calculate_pressure(result.rec, r, theta_input, cfg.methods,
                                     cfg.rmax_frac, rmax_select, FieldKw)
    /\ UNCHANGED <<heap, nalloc, records, timeindex, nops>>

NextFlow ==
    \/ FlowInterpolate
    \/ FlowCalcRmax
    \/ FlowCalculateWind
    \/ FlowCalculatePressure

SpecFlow == InitInterp /\ [][NextFlow]_vars

(***************************************************************************)
(* Properties                                                              *)
(***************************************************************************)
Rec(i) == heap[records[i]]

ScalarFields == {"lon", "lat", "mslp", "vmax", "rmax", "ustorm", "vstorm"}

\* C1: after any mutation of a Track (construction, append, item assignment)
\* its records are in strictly ascending timestamp order.
C1_StrictlyAscending ==
    result.op \in {"init", "append", "setitem"} =>
        \A i \in 1..(Len(records) - 1) : Rec(i).timestamp < Rec(i + 1).timestamp

\* the translation velocity of record i is the displacement to record i+1
\* over the elapsed seconds (a float64 quotient by zero is not finite)
ForwardDifference(i) ==
    LET dt == (timeindex[i + 1] - timeindex[i]) * TickSeconds
        d == gc_distance(Rec(i + 1).lon, Rec(i + 1).lat, Rec(i).lon, Rec(i).lat)
    IN  IF dt # 0
        THEN /\ VMul(Rec(i).ustorm, Int2V(dt)) = d[1]
             /\ VMul(Rec(i).vstorm, Int2V(dt)) = d[2]
        ELSE ~IsNum(Rec(i).ustorm) /\ ~IsNum(Rec(i).vstorm)

\* C2: Track.append with a Record or an array of Records completes and the
\* Track then holds its records in time-ascending order with a matching time
\* index and the translation velocity of every record recomputed.
C2_AppendCompletes ==
    result.op = "append" =>
        /\ result.status = "ok"
        /\ Len(timeindex) = Len(records)
        /\ \A i \in 1..Len(records) : timeindex[i] = Rec(i).timestamp
        /\ \A i \in 1..(Len(records) - 1) : timeindex[i] <= timeindex[i + 1]
        /\ \A i \in 1..(Len(records) - 1) : ForwardDifference(i)

\* C3: for a Track of n >= 2 Records, after construction every record i < n-1
\* has (ustorm, vstorm) equal to the displacement to record i+1 divided by the
\* elapsed seconds, and the last record has the (ustorm, vstorm) of record n-2.
C3_Translation ==
    LET n == Len(records)
    IN  n >= 2 =>
            /\ \A i \in 1..(n - 1) : ForwardDifference(i)
            /\ Rec(n).ustorm = Rec(n - 1).ustorm
            /\ Rec(n).vstorm = Rec(n - 1).vstorm

\* a constructed Track of three Records moving at two different finite speeds
C3_Witness ==
    /\ Len(records) = 3
    /\ result.op = "init"
    /\ IsNum(Rec(1).ustorm) /\ IsNum(Rec(2).ustorm)
    /\ Rec(1).ustorm # Rec(2).ustorm
    /\ Rec(3).ustorm = Rec(2).ustorm

\* C4: reading from a Track by integer index, index array, slice or timestamp
\* leaves every field of every Record of the Track and its time index unchanged.
C4_ReadOnly ==
    [][(result'.op = "getitem" /\ nops' = nops + 1) =>
           (heap' = heap /\ records' = records /\ timeindex' = timeindex)]_vars

\* C5: interpolate(at) fails with the out-of-range error iff at is earlier than
\* the first or later than the last timestamp of the Track, and the Track is
\* unchanged when the error is raised.
C5_RangeError ==
    /\ [](result.op = "interpolate" =>
            (result.status = "OutOfRange" <=>
                (result.at < timeindex[1] \/ result.at > timeindex[Len(timeindex)])))
    /\ [][(result'.op = "interpolate" /\ result'.status = "OutOfRange") =>
              (heap' = heap /\ records' = records /\ timeindex' = timeindex)]_vars

\* a query after the last timestamp of a Track of several Records was refused
C5_Witness ==
    /\ result.op = "interpolate"
    /\ result.status = "OutOfRange"
    /\ Len(timeindex) >= 2
    /\ result.at > timeindex[Len(timeindex)]

\* C6: interpolating at exactly timeindex[k] returns a Record whose scalar
\* fields equal those of records[k], whatever the neighbouring record carries.
C6_RoundTrip ==
    result.op = "interpolate" =>
        \A k \in 1..Len(timeindex) :
            result.at = timeindex[k] =>
                /\ result.status = "ok"
                /\ \A f \in ScalarFields : result.rec[f] = Rec(k)[f]

\* the scalar field f of the interpolated record is the time-weighted blend of
\* records k and k+1: w_l = (t_r - at)/(t_r - t_l), w_r = 1 - w_l
TimeWeighted(f, k) ==
    LET t_l == timeindex[k]
        t_r == timeindex[k + 1]
    IN  VMul(result.rec[f], Int2V(t_r - t_l)) =
            VAdd(VMul(Rec(k)[f], Int2V(t_r - result.at)),
                 VMul(Rec(k + 1)[f], Int2V(result.at - t_l)))

\* C7: for a query strictly between two consecutive timestamps interpolate
\* returns a Record whose scalar fields are the time-weighted blends; for the
\* two-Record Track 6 hours apart at (0E,0N) and (1E,0N) the midpoint has
\* longitude 0.5 and the great-circle distance over 21600 s as speed.
C7_Blend ==
    result.op = "interpolate" =>
        \A k \in 1..(Len(timeindex) - 1) :
            (timeindex[k] < result.at /\ result.at < timeindex[k + 1]) =>
                /\ result.status = "ok"
                /\ \A f \in ScalarFields : TimeWeighted(f, k)
                /\ (/\ Len(records) = 2
                    /\ Rec(1).lon = Int2V(0) /\ Rec(2).lon = Int2V(1)
                    /\ (timeindex[2] - timeindex[1]) * TickSeconds = 21600
                    /\ 2 * result.at = timeindex[1] + timeindex[2])
                   => /\ result.rec.lon = Num(1, 2)
                      /\ result.rec.ustorm = Num(DegLen, 21600)

\* the single scalar rmax the priority rule of calc_rmax broadcasts
RegressionRmax ==
    IF ~IsNaN(Self.mslp) THEN calc_rmax_s02(Self.mslp)
    ELSE calc_rmax_w04(Self.vmax, Self.lat)

\* C8: calc_rmax chooses its rmax source by strict priority: (1) the known
\* rmax of the Record, broadcast to the 5 sampled angles, if use_rmax_info is
\* true; (2) otherwise, if no radial observation exists, the S02 value when
\* the central pressure is known, else the W04 value, broadcast; (3) only
\* otherwise the radial observations are solved per threshold and angle.
C8_Priority ==
    result.op = "calc_rmax" =>
        IF ~IsNaN(Self.rmax) /\ result.use_rmax_info
        THEN /\ result.status = "ok"
             /\ Self.frmax.fs = <<Broadcast(Self.rmax)>>
        ELSE IF NoRadialInfo(Self)
        THEN /\ result.status = "ok"
             /\ Self.frmax.fs = <<Broadcast(RegressionRmax)>>
        ELSE (HasKey(Self, "fvinfo") /\ HasKey(Self, "fradinfo")) =>
                 /\ result.status = "ok"
                 /\ Self.frmax.arr
                 /\ Len(Self.frmax.fs) = Len(Self.fvinfo)

\* method j of the last calc_rmax call fails at threshold k and sampled angle
\* i: its velocity window does not hold the observed velocity, or its solver
\* fails
MethodFails(k, i, j) ==
    \/ ~InWindow(Self.fvinfo[k][i], result.vlimit, j)
    \/ /\ result.methods[j] \in {"E11", "H80"}
       /\ result.solver \notin {"scan", "fsolve"}

\* C9: in calc_rmax with radial observations, when every requested method
\* fails at some threshold and sampled angle, that rmax entry surfaces as
\* missing data (NaN), never as an ordinary radius, and calc_rmax does not
\* abort.
C9_Unresolved ==
    (/\ result.op = "calc_rmax"
     /\ ~(~IsNaN(Self.rmax) /\ result.use_rmax_info)
     /\ ~NoRadialInfo(Self)
     /\ HasKey(Self, "fvinfo") /\ HasKey(Self, "fradinfo")) =>
        /\ result.status = "ok"
        /\ \A k \in 1..Len(Self.fvinfo) : \A i \in 1..5 :
               (\A j \in 1..Len(result.methods) : MethodFails(k, i, j)) =>
                   IsNaN(Self.frmax.fs[k][i])

\* the rmax selection of the last field evaluation fails: an unsupported
\* keyword, an integer index out of range, an rmax_select of another type,
\* or a 'nearest' / 'linear' that cannot be computed
SelectionFails ==
    LET sel == result.rmax_select
        nrmax == Len(Self.frmax.fs)
        radinfo == RadinfoAt(Self, result.theta)
        dist == [k \in 1..Len(radinfo) |-> VAbs(VSub(radinfo[k], result.r))]
    IN  \/ sel.type = "str" /\ sel.v \notin {"mean", "nearest", "linear"}
        \/ sel.type = "int" /\ (sel.k >= nrmax \/ sel.k < -nrmax)
        \/ sel.type \notin {"str", "int"}
        \/ /\ sel.type = "str" /\ sel.v = "nearest"
           /\ \/ ~HasKey(Self, "fradinfo")
              \/ Len(radinfo) = 0
              \/ ArgMin(dist) > nrmax
        \/ /\ sel.type = "str" /\ sel.v = "linear"
           /\ \/ ~HasKey(Self, "fradinfo")
              \/ Len(radinfo) # nrmax

\* C10: in calculate_wind and calculate_pressure any failure of the rmax
\* selection makes the call use the first rmax interpolator's value at the
\* query bearing and still return a field value; the call does not abort.
C10_Fallback ==
    (/\ Evaluated
     /\ HasKey(Self, "fvmax") /\ HasKey(Self, "frmax")
     /\ SelectionFails) =>
        /\ result.status = "ok"
        /\ result.rmax = Eval(Self.frmax.fs[1], Int2V(result.theta)).v

\* the rmax interpolators' values at the bearing of the last evaluation
RmaxValues == RmaxAt(Self, result.theta)

\* the last evaluation reached the rmax selection with an rmax_select that is
\* an integer index into the rmax interpolators
ValidIndex ==
    /\ Evaluated
    /\ HasKey(Self, "fvmax") /\ HasKey(Self, "frmax")
    /\ result.rmax_select.type = "int"
    /\ result.rmax_select.k < Len(Self.frmax.fs)
    /\ result.rmax_select.k >= -Len(Self.frmax.fs)

\* C11: with rmax_select an integer k that is a valid index into the rmax
\* interpolators, calculate_wind and calculate_pressure use the k-th
\* interpolator's value at the query bearing as rmax and return a field value
\* computed with it.
C11_IntIndex ==
    ValidIndex =>
        LET k == result.rmax_select.k
            pos == IF k < 0 THEN Len(RmaxValues) + k + 1 ELSE k + 1
        IN  /\ result.rmax = RmaxValues[pos]
            /\ (IsNum(RmaxValues[pos]) /\ RmaxValues[pos].n > 0) => result.status = "ok"

\* C12: for an input bearing theta_input counter-clockwise from east,
\* calculate_wind and calculate_pressure evaluate the directional
\* interpolators at its clockwise-from-north equivalent (pi/2 - theta) mod
\* 2*pi, one quarter turn minus theta_input in the units of the model; due
\* east is evaluated at 90 degrees clockwise from north.
C12_Bearing ==
    (Evaluated /\ HasKey(Self, "fvmax")) =>
        /\ result.theta = (1 - result.theta_input) % 4
        /\ result.vmax = Eval(Self.fvmax, Int2V((1 - result.theta_input) % 4)).v

\* r of the last evaluation lies in the right-open band i of its rmax
InBand(i) ==
    /\ VLe(VMul(IF i = 1 THEN Int2V(0) ELSE result.rmax_frac[i - 1], result.rmax),
           result.r)
    /\ VLt(result.r, VMul(result.rmax_frac[i], result.rmax))

\* the last evaluation selected an rmax and entered the loop over the bands
BandsEntered ==
    /\ Evaluated
    /\ HasKey(Self, "fvmax") /\ HasKey(Self, "frmax")
    /\ result.rmax_select.type = "str"
    /\ ~SelectionFails
    /\ Len(result.rmax_frac) = Len(result.methods)

HollandInputs ==
    [vmax : {Int2V(0), Int2V(10), Int2V(30), Int2V(60), NaN},
     rmax : {Int2V(50000), NaN},
     pc : {Int2V(90000), Int2V(98000), Int2V(101000), NaN},
     f : {Int2V(0), Num(1, 10000)},
     pn : {Int2V(101325), Int2V(101000)},
     rhoair : {Num(115, 100)},
     lim : {FieldKw.h80, [bmax |-> Int2V(2), bmin |-> Int2V(1)]}]

\* no Track and no Record yet
InitCall ==
    /\ heap = <<>>
    /\ nalloc = 0
    /\ records = <<>>
    /\ timeindex = <<>>
    /\ nops = 0
    /\ result = [op |-> "init"]

CalcHollandB ==
    /\ \E kw \in HollandInputs :
        result' = [op |-> "calc_holland_B", kw |-> kw,
                   B |-> calc_holland_B(kw.vmax, kw.pc, kw.pn, kw.rhoair,
                                        kw.lim.bmax, kw.lim.bmin)]
    /\ UNCHANGED <<heap, nalloc, records, timeindex, nops>>

CalcHollandBFull ==
    /\ \E kw \in HollandInputs :
        result' = [op |-> "calc_holland_B_full", kw |-> kw,
                   B |-> calc_holland_B_full(kw.vmax, kw.rmax, kw.pc, kw.f, kw.pn,
                                             kw.rhoair, kw.lim.bmax, kw.lim.bmin)]
    /\ UNCHANGED <<heap, nalloc, records, timeindex, nops>>

\* central pressures in Pa, from below to above the zero of calc_rmax_s02
S02Pressures ==
    {Int2V(85000), Int2V(86300), Int2V(86400), Int2V(90000), Int2V(98000),
     Int2V(101325), Int2V(110000)}

CalcRmaxS02 ==
    /\ \E mslp \in S02Pressures :
        result' = [op |-> "calc_rmax_s02", mslp |-> mslp, rmax |-> calc_rmax_s02(mslp)]
    /\ UNCHANGED <<heap, nalloc, records, timeindex, nops>>

NextHolland ==
    \/ CalcHollandB
    \/ CalcHollandBFull
    \/ CalcRmaxS02

SpecHolland == InitCall /\ [][NextHolland]_vars

(***************************************************************************)
(* SpecNew: the construction of a Record from keyword arguments           *)
(***************************************************************************)
\* a str such as 'abc' passed where a float is expected
Text == [k |-> "str", n |-> 0, d |-> 1]

\* a timestamp that is no datetime, DatetimeIndex or str (a float)
BadTimestamp == -1

NewKw ==
    { [kw \in DOMAIN all \ drop |-> all[kw]] :
        all \in { [timestamp |-> t, lon |-> x, lat |-> Int2V(0),
                   mslp |-> p, vmax |-> v] @@ rm @@ prof :
                   t \in {0, BadTimestamp}, x \in {Int2V(0), Text},
                   p \in {Int2V(98000), NaN, Text}, v \in {Int2V(30), Text},
                   rm \in Rmaxes,
                   prof \in {[x \in {} |-> NaN], OneThreshold,
                             [vinfo |-> OneThreshold.vinfo]} },
        drop \in {{}, {"timestamp"}, {"lon"}, {"vmax"}, {"rmax"}} }

\* Record.__init__: the presence assert, the defaults, the timestamp assert
RecordInit ==
    /\ \E kwargs \in NewKw :
        result' = [op |-> "Record", kwargs |-> kwargs,
                   status |-> IF ~RecordOk(kwargs) THEN "Exception"
                              ELSE IF kwargs.timestamp = BadTimestamp THEN "Exception"
                              ELSE "ok",
                   self |-> IF RecordOk(kwargs) /\ kwargs.timestamp # BadTimestamp
                            THEN Record(kwargs) ELSE FreeSlot]
    /\ UNCHANGED <<heap, nalloc, records, timeindex, nops>>

SpecNew == InitCall /\ [][RecordInit]_vars

\* neither NaN nor infinite
Finite(a) == a.k \in {"num", "sym"}

\* C14: for a Record carrying the one threshold 30 m/s with the quadrant radii
\* [50000, 60000, 55000, 45000], gen_radial_fields and then calculate_wind
\* at r = 50000, bearing 0, with no other call in between, does not raise and
\* returns a finite (u, v).
C14_GenThenWind ==
    [][(/\ result.op = "gen_radial_fields"
        /\ Self.vinfo = FullCircle.vinfo /\ Self.radinfo = FullCircle.radinfo
        /\ ~HasKey(Self, "frmax")
        /\ result'.op = "calculate_wind"
        /\ result'.r = Int2V(50000)
        /\ result'.theta_input = 0)
       => (/\ result'.status = "ok"
           /\ Finite(result'.u)
           /\ Finite(result'.v))]_vars

\* C15: a Record returned by Track.interpolate can be passed to calc_rmax and
\* then to calculate_wind or calculate_pressure, with no other operation on
\* it in between, and the sequence yields a field value at the query point.
C15_Flow ==
    /\ result.op = "calc_rmax" => result.status = "ok"
    /\ Evaluated => result.status = "ok"

\* the unclamped value of the formula of the call in result
HollandFormula ==
    LET kw == result.kw
        simple == VMul(VMul(VMul(kw.vmax, kw.vmax), kw.rhoair), Euler)
    IN  IF result.op = "calc_holland_B" THEN VDiv(simple, VSub(kw.pn, kw.pc))
        ELSE VDiv(VAdd(simple,
                       VMul(VMul(VMul(VMul(kw.f, kw.vmax), kw.rmax), Euler), kw.rhoair)),
                  VSub(kw.pn, kw.pc))

\* C16: for all inputs with pn != pc, calc_holland_B and calc_holland_B_full
\* return a B with bmin <= B <= bmax: bmin when the formula is below bmin,
\* bmax when it is above bmax, the value of the formula otherwise.
C16_Clamped ==
    (result.op \in {"calc_holland_B", "calc_holland_B_full"}
        /\ result.kw.pn # result.kw.pc)
    => /\ VLe(result.kw.lim.bmin, result.B)
       /\ VLe(result.B, result.kw.lim.bmax)
       /\ result.B = IF VLt(HollandFormula, result.kw.lim.bmin) THEN result.kw.lim.bmin
                     ELSE IF VLt(result.kw.lim.bmax, HollandFormula)
                          THEN result.kw.lim.bmax
                     ELSE HollandFormula

\* a float, NaN and the infinities included
Numeric(a) == a.k \in {"num", "nan", "inf"}

\* the required field kw of the keyword arguments is there and numeric (an
\* instant for the timestamp)
RequiredGood(kwargs, kw) ==
    /\ kw \in DOMAIN kwargs
    /\ IF kw = "timestamp" THEN kwargs[kw] # BadTimestamp ELSE Numeric(kwargs[kw])

\* C17: every successfully constructed Record has the five required fields
\* present and numeric, and every optional field holds the supplied value or
\* is NaN; construction with a required field missing or non-numeric is
\* rejected with an error.
C17_Fields ==
    result.op = "Record" =>
        /\ result.status = "ok" =>
              /\ \A kw \in req_kw : RequiredGood(result.self, kw)
              /\ \A kw \in opt_kw :
                    result.self[kw] = IF kw \in DOMAIN result.kwargs
                                      THEN result.kwargs[kw] ELSE OptDefault(kw)
        /\ (\E kw \in req_kw : ~RequiredGood(result.kwargs, kw))
              => result.status = "Exception"

\* the query of result lies strictly between records k and k+1, both of which
\* carry a list of thresholds
Between(k) ==
    /\ result.op = "interpolate"
    /\ timeindex[k] < result.at /\ result.at < timeindex[k + 1]
    /\ Rec(k).vinfo.arr /\ Rec(k + 1).vinfo.arr

\* the number of thresholds records k and k+1 have in common
Common(k) == Min(Len(Rec(k).vinfo.v), Len(Rec(k + 1).vinfo.v))

\* threshold i is known (not NaN) in records k and k+1
Known(k, i) == ~IsNaN(Rec(k).vinfo.v[i]) /\ ~IsNaN(Rec(k + 1).vinfo.v[i])

\* threshold i is known and not zero in records k and k+1
Valid(k, i) ==
    /\ Known(k, i)
    /\ Rec(k).vinfo.v[i] # Int2V(0) /\ Rec(k + 1).vinfo.v[i] # Int2V(0)

\* radius row i of the interpolated record is the time-weighted blend of row i
\* of records k and k+1
RowBlend(k, i) ==
    LET t_l == timeindex[k]
        t_r == timeindex[k + 1]
        rows == result.rec.radinfo.rows
    IN  /\ result.rec.radinfo.dim = 2
        /\ i <= Len(rows)
        /\ \A j \in 1..4 :
             VMul(rows[i][j], Int2V(t_r - t_l)) =
                 VAdd(VMul(Rec(k).radinfo.rows[i][j], Int2V(t_r - result.at)),
                      VMul(Rec(k + 1).radinfo.rows[i][j], Int2V(result.at - t_l)))

\* radius row i of the interpolated record is NaN in all its components (a
\* scalar NaN radinfo included)
RowIsNaN(i) ==
    \/ result.rec.radinfo = RadScalarNaN
    \/ /\ i <= Len(result.rec.radinfo.rows)
       /\ \A j \in DOMAIN result.rec.radinfo.rows[i] :
             IsNaN(result.rec.radinfo.rows[i][j])

\* threshold i of the interpolated record is NaN (a scalar NaN vinfo included)
ThresholdIsNaN(i) ==
    IF result.rec.vinfo.arr
    THEN i <= Len(result.rec.vinfo.v) /\ IsNaN(result.rec.vinfo.v[i])
    ELSE IsNaN(result.rec.vinfo.v[1])

\* C18: when the bracketing records report different numbers of thresholds
\* and the query is strictly between them, the interpolated Record has exactly
\* min(n_left, n_right) thresholds and radius rows, and each radius row below
\* min (of a threshold that is valid, neither NaN nor zero, in both records)
\* is the time-weighted blend of that row of the left and right records.
C18_Truncate ==
    \A k \in 1..(Len(timeindex) - 1) :
        (Between(k) /\ Len(Rec(k).vinfo.v) # Len(Rec(k + 1).vinfo.v)) =>
            /\ result.status = "ok"
            /\ result.rec.vinfo.arr
            /\ Len(result.rec.vinfo.v) = Common(k)
            /\ result.rec.radinfo.dim = 2
            /\ Len(result.rec.radinfo.rows) = Common(k)
            /\ \A i \in 1..Common(k) : Valid(k, i) => RowBlend(k, i)

\* C19: strictly between two records, a NaN at threshold index i in either
\* record makes exactly radius row i NaN in all its components; rows at other
\* indices whose thresholds are valid (neither NaN nor zero) in both records
\* keep their time-weighted blend.
C19_NaNRow ==
    \A k \in 1..(Len(timeindex) - 1) :
        (Between(k) /\ result.status = "ok") =>
            \A i \in 1..Common(k) :
                /\ ~Known(k, i) => RowIsNaN(i)
                /\ Valid(k, i) => RowBlend(k, i)

\* C20: strictly between two records, for every threshold index and whatever
\* the number of thresholds, a zero threshold in either bracketing record
\* makes the interpolated threshold and its radius row NaN.
C20_ZeroThreshold ==
    \A k \in 1..(Len(timeindex) - 1) :
        (Between(k) /\ result.status = "ok") =>
            \A i \in 1..Common(k) :
                (Rec(k).vinfo.v[i] = Int2V(0) \/ Rec(k + 1).vinfo.v[i] = Int2V(0))
                    => (ThresholdIsNaN(i) /\ RowIsNaN(i))

\* the last call is a calc_rmax that went through the radial-observation
\* branch
RadialBranch ==
    /\ result.op = "calc_rmax"
    /\ ~(~IsNaN(Self.rmax) /\ result.use_rmax_info)
    /\ ~NoRadialInfo(Self)
    /\ HasKey(Self, "fvinfo") /\ HasKey(Self, "fradinfo")

\* what method j of the last calc_rmax returns at sampled angle i
MethodResult(i, j) ==
    LET method == result.methods[j]
    IN  IF method \in {"E11", "H80"} THEN result.root[method]
        ELSE IF method = "S02" THEN calc_rmax_s02(Self.mslp)
        ELSE calc_rmax_w04(Self.fvmax[i], Self.lat)

\* method j is the first of the ladder that does not fail at threshold k and
\* sampled angle i
FirstSuccess(k, i, j) ==
    /\ ~MethodFails(k, i, j)
    /\ \A j2 \in 1..(j - 1) : MethodFails(k, i, j2)

Ascending(vlimit) == \A j \in 1..(Len(vlimit) - 1) : VLe(vlimit[j], vlimit[j + 1])

\* the methods of the last calc_rmax whose window holds the velocity of
\* threshold k at sampled angle i, as calc_rmax tests it
Passing(k, i) ==
    {j \in 1..Len(result.methods) : InWindow(Self.fvinfo[k][i], result.vlimit, j)}

\* C29: in the radial-observation branch of calc_rmax, for a non-decreasing
\* vlimit at most one method passes the window precondition at every
\* threshold and sampled angle; if that method fails, no other method is
\* applied and the entry keeps its initial placeholder value 1.0.
C29_Disjoint ==
    (RadialBranch /\ Ascending(result.vlimit)) =>
        \A k \in 1..Len(Self.fvinfo) : \A i \in 1..5 :
            /\ Cardinality(Passing(k, i)) <= 1
            /\ \A j \in Passing(k, i) :
                  MethodFails(k, i, j) => Self.frmax.fs[k][i] = Int2V(1)

\* an ascending vlimit, a velocity that passes the window of the first method
\* only, a solver failure of that method, and the placeholder in the entry
C29_Witness ==
    /\ RadialBranch
    /\ Ascending(result.vlimit)
    /\ \E k \in 1..Len(Self.fvinfo) : \E i \in 1..5 :
          /\ Passing(k, i) = {1}
          /\ MethodFails(k, i, 1)
          /\ Self.frmax.fs[k][i] = Int2V(1)

\* the circular wind of the last calculate_wind, before the surface wind
\* reduction factor
CircularWind ==
    Vcirc(Self, result.method, result.r, result.rmax, result.vmax, FieldKw)

\* the translation velocity of the Record rotated by the angle of kw_corr
RotatedStorm ==
    [u |-> VSub(VMul(Self.ustorm, CosDeg(kw_corr.angle)),
                VMul(Self.vstorm, SinDeg(kw_corr.angle))),
     v |-> VAdd(VMul(Self.ustorm, SinDeg(kw_corr.angle)),
                VMul(Self.vstorm, CosDeg(kw_corr.angle)))]

\* C22: calculate_wind returns u = tfac*(-swrf*vcirc*sin(theta) +
\* fraction*utrans) and v = tfac*(swrf*vcirc*cos(theta) + fraction*vtrans),
\* theta the input bearing and (utrans, vtrans) the translation velocity
\* rotated by angle; when ustorm or vstorm is NaN the translation term is
\* omitted and the components are tfac*swrf*vcirc times (-sin, cos).
C22_Components ==
    (result.op = "calculate_wind" /\ result.status = "ok") =>
        LET c == kw_corr
            circ_u == VMul(VMul(VNeg(c.swrf), CircularWind),
                           Int2V(SinQ(result.theta_input)))
            circ_v == VMul(VMul(c.swrf, CircularWind),
                           Int2V(CosQ(result.theta_input)))
        IN  IF IsNaN(Self.ustorm) \/ IsNaN(Self.vstorm)
            THEN /\ result.u = VMul(c.tfac, circ_u)
                 /\ result.v = VMul(c.tfac, circ_v)
            ELSE /\ result.u = VMul(c.tfac, VAdd(circ_u, VMul(c.fraction, RotatedStorm.u)))
                 /\ result.v = VMul(c.tfac, VAdd(circ_v, VMul(c.fraction, RotatedStorm.v)))

\* a wind with a circular part and the translation added back
C22_Witness ==
    /\ result.op = "calculate_wind" /\ result.status = "ok"
    /\ Self.ustorm = Storm.ustorm
    /\ result.r = Int2V(50000)
    /\ result.theta_input = -1
    /\ result.u.k = "sym"
    /\ Const(result.u) = VMul(kw_corr.tfac, VMul(kw_corr.fraction, RotatedStorm.u))
    /\ result.v = VMul(kw_corr.tfac, VMul(kw_corr.fraction, RotatedStorm.v))

\* the number of thresholds of the list v that are not NaN
KnownCount(v) == Cardinality({i \in DOMAIN v : ~IsNaN(v[i])})

\* C23: gen_radial_fields on a Record whose threshold list (with one row of
\* four radii per threshold) contains a NaN entry at any position completes
\* without error, builds a velocity and a radius interpolator for every
\* non-NaN threshold, and builds none for the NaN threshold.
C23_NaNThreshold ==
    [][(/\ result'.op = "gen_radial_fields"
        /\ Self.vinfo.arr
        /\ Self.radinfo.dim = 2
        /\ Len(Self.radinfo.rows) = Len(Self.vinfo.v)
        /\ \E i \in DOMAIN Self.vinfo.v : IsNaN(Self.vinfo.v[i]))
       => (/\ result'.status = "ok"
           /\ HasKey(Self', "fvinfo") /\ HasKey(Self', "fradinfo")
           /\ Len(Self'.fvinfo) = KnownCount(Self.vinfo.v)
           /\ Len(Self'.fradinfo) = KnownCount(Self.vinfo.v))]_vars

\* the fields of a Record that gen_radial_fields reads
SourceFields == {"vmax", "vinfo", "radinfo", "ustorm", "vstorm"}

\* C30: gen_radial_fields leaves the source fields vmax, vinfo, radinfo,
\* ustorm and vstorm of the Record unchanged, and a second call directly after
\* a first one, with the same arguments, yields the same fvmax, fvinfo and
\* fradinfo as the first, also for a Record with a NaN threshold.
C30_Idempotent ==
    [][(result'.op = "gen_radial_fields")
       => (/\ \A f \in SourceFields : Self'[f] = Self[f]
           /\ (result.op = "gen_radial_fields" /\ result.status = "ok")
                 => (/\ result'.status = "ok"
                     /\ Self'.fvmax = Self.fvmax
                     /\ Self'.fvinfo = Self.fvinfo
                     /\ Self'.fradinfo = Self.fradinfo))]_vars

\* the query of result was accepted and both bracketing Records carry no
\* radial observations (vinfo and radinfo at their NaN default)
NoRadialBrackets ==
    /\ result.op = "interpolate"
    /\ result.status # "OutOfRange"
    /\ \A i \in {result.i_left, result.i_right} :
          Rec(i).vinfo = ScalarNaN /\ Rec(i).radinfo = RadScalarNaN

\* C24: Track.interpolate at any in-range time on a Track whose bracketing
\* Records carry no radial observations returns a Record whose vinfo and
\* radinfo are NaN, without raising.
C24_NoRadial ==
    NoRadialBrackets =>
        /\ result.status = "ok"
        /\ result.rec.vinfo = ScalarNaN
        /\ result.rec.radinfo = RadScalarNaN

\* C25 as stated: for a Track of exactly one Record the last-step handling of
\* calc_translation is executed and its index -2 underflows, so the
\* construction step fails.
C25_Underflow ==
    (result.op = "init" /\ Len(records) = 1) => result.status # "ok"

\* C25 as the code has it: for a Track of exactly one Record the loop body of
\* calc_translation, which holds the last-step handling, is never executed;
\* construction completes and the Record keeps the translation velocity it
\* was constructed with (NaN when none was supplied).
C25_SingleRecord ==
    (result.op = "init" /\ Len(records) = 1) =>
        /\ result.status = "ok"
        /\ \/ IsNaN(Rec(1).ustorm) /\ IsNaN(Rec(1).vstorm)
           \/ Rec(1).ustorm = Storm.ustorm /\ Rec(1).vstorm = Storm.vstorm

\* a one-Record Track built from a Record that carries a translation velocity
C25_Witness ==
    /\ result.op = "init" /\ result.status = "ok"
    /\ Len(records) = 1
    /\ Rec(1).ustorm = Storm.ustorm

\* rmax in metres as the linear function 4.785*mslp - 413000 of the central
\* pressure in Pa
S02Linear(mslp) == VSub(VMul(Num(4785, 1000), mslp), Int2V(413000))

\* C26 as stated: calc_rmax_s02 is linear in central pressure, unclamped, and
\* negative for sufficiently high central pressure, non-negative for lower
\* pressures.
C26_HighNegative ==
    result.op = "calc_rmax_s02" =>
        /\ result.rmax = S02Linear(result.mslp)
        /\ \A p \in S02Pressures :
              /\ (VLt(result.rmax, Int2V(0)) /\ VLt(result.mslp, p))
                    => VLt(calc_rmax_s02(p), Int2V(0))
              /\ (VLe(Int2V(0), result.rmax) /\ VLt(p, result.mslp))
                    => VLe(Int2V(0), calc_rmax_s02(p))

\* C26 as the code has it: calc_rmax_s02 is linear in central pressure with a
\* positive slope, unclamped, and negative for sufficiently low central
\* pressure (below 863.11 mb), non-negative for higher pressures.
C26_LowNegative ==
    result.op = "calc_rmax_s02" =>
        /\ result.rmax = S02Linear(result.mslp)
        /\ VLt(result.rmax, Int2V(0)) <=> VLt(result.mslp, Int2V(86312))
        /\ \A p \in S02Pressures :
              /\ (VLt(result.rmax, Int2V(0)) /\ VLt(p, result.mslp))
                    => VLt(calc_rmax_s02(p), Int2V(0))
              /\ (VLe(Int2V(0), result.rmax) /\ VLt(result.mslp, p))
                    => VLe(Int2V(0), calc_rmax_s02(p))

\* a negative radius returned for 850 mb
C26_Witness ==
    /\ result.op = "calc_rmax_s02"
    /\ result.mslp = Int2V(85000)
    /\ result.rmax = Num(-6275, 1)

\* C27: after any sequence of Track operations (construction, append, also
\* one that raises, item assignment by timestamp, indexing) timeindex and
\* records have the same length and timeindex[i] is records[i]['timestamp'].
C27_Aligned ==
    /\ Len(timeindex) = Len(records)
    /\ \A i \in 1..Len(records) :
          i <= Len(timeindex) /\ timeindex[i] = Rec(i).timestamp

\* C28: for every query time Track.interpolate accepts, the bracketing
\* records satisfy t_left < at <= t_right or both brackets are the first
\* record; the elapsed-time divisor is strictly positive and the weights are
\* in [0, 1] with sum 1, also when the Track has duplicate timestamps.
C28_Weights ==
    (result.op = "interpolate" /\ result.status # "OutOfRange") =>
        /\ \/ /\ result.i_left = 1 /\ result.i_right = 1
              /\ result.at = timeindex[1]
           \/ /\ result.i_right = result.i_left + 1
              /\ timeindex[result.i_left] < result.at
              /\ result.at <= timeindex[result.i_right]
        /\ result.status # "ZeroDivisionError"
        /\ VLe(Int2V(0), result.w_left) /\ VLe(result.w_left, Int2V(1))
        /\ VLe(Int2V(0), result.w_right) /\ VLe(result.w_right, Int2V(1))
        /\ VAdd(result.w_left, result.w_right) = Int2V(1)

\* a query on the second of two equal timestamps of a Track of three Records
C28_Witness ==
    /\ result.op = "interpolate" /\ result.status # "OutOfRange"
    /\ Len(timeindex) = 3
    /\ timeindex[2] = timeindex[3]
    /\ timeindex[1] < timeindex[2]
    /\ result.at = timeindex[3]
    /\ result.i_left = 1 /\ result.i_right = 2
    /\ result.w_right = Int2V(1)

====
